---- MODULE Spec2Model ----
(***************************************************************************)
(* Camera lifecycle controller of virtualcam_app.py: CameraManager (device *)
(* detection, v4l2loopback driver lifecycle, ffmpeg supervision) and the   *)
(* SystemTray status monitor (update_status / attempt_recovery).           *)
(*                                                                         *)
(* Every handler runs to completion on the Qt event loop, so one handler   *)
(* is one action.  A handler is written as an operator from the state      *)
(* before the call to the SET of states it can end in: the outcomes of the *)
(* external commands it runs (exit status, timeout, whether the spawned    *)
(* ffmpeg survives the settle sleep) are the nondeterminism.               *)
(***************************************************************************)
EXTENDS Naturals, Integers, Sequences, FiniteSets, TLC

\* ------------------------------------------------------------------ bounds

\* Number of ffmpeg processes the controller may spawn in one behaviour.
MaxSpawns == 3

\* ------------------------------------------------------------- constants

None == "None"

\* self.ffmpeg_process = None: no Popen object is held (pids are 1, 2, ...).
NoProcess == 0

\* self._max_consecutive_errors
MaxConsecutiveErrors == 3

\* How a subprocess.run(...) of an external tool can end.
Outcome == {"ok", "nonzero", "timeout"}

\* How a subprocess.Popen(ffmpeg) followed by time.sleep(1) can end: the
\* child is still running, the child has exited, or Popen / open() raised.
SpawnOutcome == {"alive", "died", "oserror"}

\* ------------------------------------------------- enumeration output

\* A line of `v4l2-ctl --list-devices` output, by what the parser asks of it:
\*   name  : 'Elgato Facecam' in line
\*   dev   : the first word of line.strip() if that starts with '/dev/video'
\*   blank : line.strip() is empty
NameLine == [name |-> TRUE, dev |-> None, blank |-> FALSE]
OtherNameLine == [name |-> FALSE, dev |-> None, blank |-> FALSE]
PathLine(p) == [name |-> FALSE, dev |-> p, blank |-> FALSE]
MediaLine == [name |-> FALSE, dev |-> None, blank |-> FALSE]
BlankLine == [name |-> FALSE, dev |-> None, blank |-> TRUE]

\* The facecam plugged in, unplugged, and enumerated without a video node.
LsPresent == <<NameLine, PathLine("/dev/video0"), PathLine("/dev/video1"), BlankLine>>
LsAbsent == <<OtherNameLine, PathLine("/dev/video4"), BlankLine>>
LsNoNode == <<NameLine, MediaLine, BlankLine>>
Listings == {LsPresent, LsAbsent, LsNoNode}

\* ------------------------------------------------------------------ state

VARIABLES
  ffmpeg_process,      \* CameraManager.ffmpeg_process: NoProcess or a pid
  elgato_device,       \* CameraManager.elgato_device: None or a device path
  consecutive_errors,  \* SystemTray._consecutive_errors
  last_status,         \* SystemTray._last_status: <<>> (unset) or <<status, message>>
  procs,               \* OS: pid -> "unborn" | "running" | "exited" | "reaped"
  listing,             \* OS: what v4l2-ctl --list-devices prints
  moduleLoaded,        \* OS: v4l2loopback is in the loaded-module list
  vdevExists,          \* OS: the configured virtual device file exists
  lastCall,            \* the operation that just returned: op, ret, trace
  polls,               \* the last MaxConsecutiveErrors update_status() calls
  config,              \* ConfigManager.config
  default_config,      \* ConfigManager.default_config
  shared,              \* top-level keys whose mapping is one object in both
  config_file,         \* the persisted configuration file
  configCall,          \* the ConfigManager call that just returned
  dispatch,            \* the Qt event queue and the handlers in execution
  status_dialog,       \* SystemTray.status_dialog: created, and its action buttons
  startup,             \* VirtualCamApp.__init__: statement reached, directory, log file
  service              \* virtualcam-tray.py: the service unit and what the tray shows

\* The configuration manager and its file.
cvars == <<config, default_config, shared, config_file, configCall>>

vars == <<ffmpeg_process, elgato_device, consecutive_errors, last_status,
          procs, listing, moduleLoaded, vdevExists, lastCall, polls, cvars,
          dispatch, status_dialog, startup, service>>

Pids == 1..MaxSpawns

\* The controller and its environment as one record; `ret` is the value the
\* call in progress returned, `trace` the external effects it has caused, and
\* `liveUnload` whether it unloaded the driver while a transcoder it owns ran.
Cur ==
  [ffmpeg_process |-> ffmpeg_process, elgato_device |-> elgato_device,
   consecutive_errors |-> consecutive_errors, last_status |-> last_status,
   procs |-> procs, listing |-> listing, moduleLoaded |-> moduleLoaded,
   vdevExists |-> vdevExists, polls |-> polls,
   ret |-> None, trace |-> <<>>, liveUnload |-> FALSE,
   action_buttons |-> status_dialog.action_buttons]

Ret(s, v) == [s EXCEPT !.ret = v]
Do(s, ev) == [s EXCEPT !.trace = Append(@, ev)]

\* How often the event ev occurs in a trace.
Count(trace, ev) == Cardinality({i \in 1..Len(trace) : trace[i] = ev})

\* Number of processes spawned so far.
Spawned(s) == Cardinality({p \in Pids : s.procs[p] # "unborn"})

\* ------------------------------------------------------- CameraManager

\* The scan taking the first device path anywhere after a name line.
ScanLines_first_path_after(lines, i) ==
  LET paths == {j \in 1..Len(lines) : lines[j].dev # None /\
                  \E n \in i..(j - 1) : lines[n].name} IN
  IF paths = {} THEN None
  ELSE lines[CHOOSE j \in paths : \A k \in paths : j <= k].dev

\* The scan skipping empty lines between the name line and the path.
RECURSIVE ScanLines_skips_blank(_, _)
ScanLines_skips_blank(lines, i) ==
  LET later(n) == {j \in (n + 1)..Len(lines) : ~lines[j].blank}
      next(n) == CHOOSE j \in later(n) : \A k \in later(n) : j <= k IN
  IF i > Len(lines) THEN None
  ELSE IF lines[i].name /\ later(i) # {} /\ lines[next(i)].dev # None
       THEN lines[next(i)].dev
       ELSE ScanLines_skips_blank(lines, i + 1)

\* The scan of the enumeration output: a line holding the product name whose
\* NEXT line, stripped, starts with '/dev/video' gives that line's first word.
RECURSIVE ScanLines(_, _)
ScanLines(lines, i) ==
  IF i > Len(lines) THEN None
  ELSE IF lines[i].name /\ i + 1 <= Len(lines) /\ lines[i + 1].dev # None
       THEN lines[i + 1].dev
       ELSE ScanLines(lines, i + 1)

\* detect_elgato_camera with the enumeration command ending in `oc`.
DetectWith(s, oc) ==
  LET t == Do(s, "v4l2-ctl") IN
  IF oc = "ok" THEN Ret(t, ScanLines(s.listing, 1)) ELSE Ret(t, None)

detect_elgato_camera(s) == {DetectWith(s, oc) : oc \in Outcome}

\* The privileged module load: exit status 0 means the module is loaded with
\* the configured video_nr, so the virtual device file exists.
Modprobe(s, oc) ==
  LET t == Do(s, "modprobe") IN
  IF oc = "ok" THEN [t EXCEPT !.moduleLoaded = TRUE, !.vdevExists = TRUE] ELSE t

\* The privileged module unload: exit status 0 means the module is gone and
\* its device files with it.
ModprobeRemove(s, oc) ==
  LET t == [Do(s, "modprobe -r") EXCEPT
              !.liveUnload = @ \/ \E p \in Pids : s.procs[p] = "running"] IN
  IF oc = "ok" THEN [t EXCEPT !.moduleLoaded = FALSE, !.vdevExists = FALSE] ELSE t

\* ensure_v4l2loopback_loaded loading the module whatever lsmod lists.
EnsureWith_always_loads(s, oc) ==
  Ret(Modprobe(Do(s, "lsmod"), oc), oc = "ok" \/ s.moduleLoaded)

\* ensure_v4l2loopback_loaded with the load command (if issued) ending in `oc`.
EnsureWith(s, oc) ==
  LET t == Do(s, "lsmod") IN
  IF t.moduleLoaded THEN Ret(t, TRUE)
  ELSE Ret(Modprobe(t, oc), oc = "ok")

ensure_v4l2loopback_loaded(s) == {EnsureWith(s, oc) : oc \in Outcome}

verify_virtual_device(s) == Ret(Do(s, "exists"), s.vdevExists)

\* Mutant of ResetWith: the exit status of the reload is not looked at.
ResetWith_ignores_reload(s, unl, rel) ==
  LET u == ModprobeRemove(s, unl) IN
  IF unl # "ok" THEN Ret(Do(u, "log: reset failed"), FALSE)
  ELSE Ret(Do(Modprobe(u, rel), "log: reset ok"), TRUE)

\* reset_virtual_device reloading the module although the unload failed.
ResetWith_reloads_anyway(s, unl, rel) ==
  LET m == Modprobe(ModprobeRemove(s, unl), rel) IN
  IF rel = "ok" THEN Ret(Do(m, "log: reset ok"), TRUE)
  ELSE Ret(Do(m, "log: reset failed"), FALSE)

\* reset_virtual_device going on to the reload when the unload timed out.
ResetWith_reloads_after_timeout(s, unl, rel) ==
  LET u == ModprobeRemove(s, unl) IN
  IF unl = "nonzero" THEN Ret(Do(u, "log: reset failed"), FALSE)
  ELSE LET m == Modprobe(u, rel) IN
       IF rel = "ok" THEN Ret(Do(m, "log: reset ok"), TRUE)
       ELSE Ret(Do(m, "log: reset failed"), FALSE)

\* reset_virtual_device with the unload ending in `unl` and the reload in `rel`.
\* The trace also holds the line the call logs before it returns.
ResetWith(s, unl, rel) ==
  LET u == ModprobeRemove(s, unl) IN
  IF unl # "ok" THEN Ret(Do(u, "log: reset failed"), FALSE)
  ELSE LET m == Modprobe(u, rel) IN
       IF rel = "ok" THEN Ret(Do(m, "log: reset ok"), TRUE)
       ELSE Ret(Do(m, "log: reset failed"), FALSE)

reset_virtual_device(s) == {ResetWith(s, unl, rel) : unl \in Outcome, rel \in Outcome}

\* Popen.poll(): None while the child runs; otherwise the child is reaped
\* (once) and its return code reported.
Poll(s) ==
  LET p == s.ffmpeg_process
      t == Do(s, "poll")
  IN IF s.procs[p] = "running" THEN Ret(t, None)
     ELSE Ret([t EXCEPT !.procs[p] = "reaped"], "exitcode")

\* Mutant of is_streaming: the handle is trusted without polling the child.
is_streaming_unpolled(s) == Ret(s, s.ffmpeg_process # NoProcess)

\* is_streaming reporting an exited child but keeping its handle.
is_streaming_keeps_handle(s) ==
  IF s.ffmpeg_process = NoProcess THEN Ret(s, FALSE)
  ELSE LET a == Poll(s) IN Ret(a, a.ret = None)

is_streaming(s) ==
  IF s.ffmpeg_process = NoProcess THEN Ret(s, FALSE)
  ELSE LET a == Poll(s) IN
       IF a.ret = None THEN Ret(a, TRUE)
       ELSE LET b == Poll(a) IN
            IF b.ret # None THEN Ret([b EXCEPT !.ffmpeg_process = NoProcess], FALSE)
            ELSE Ret(b, FALSE)

\* subprocess.Popen(cmd, preexec_fn=os.setsid) followed by time.sleep(1);
\* ret = FALSE stands for the exception Popen or open(stderr_log) raised.
PopenAndSleep(s, oc) ==
  IF oc = "oserror" THEN Ret(Do(s, "Popen failed"), FALSE)
  ELSE LET pid == Spawned(s) + 1
           t == Do(Do(s, "Popen"), "sleep")
       IN Ret([t EXCEPT !.ffmpeg_process = pid,
                        !.procs[pid] = IF oc = "alive" THEN "running" ELSE "exited"],
              TRUE)

\* Lines 546-565: the reset succeeded, spawn once more and check once more.
RetrySpawn(s) ==
  UNION {IF ~q.ret THEN {Ret(q, FALSE)}
         ELSE LET c == Poll(q) IN {Ret(c, c.ret = None)}
         : q \in {PopenAndSleep(s, oc) : oc \in SpawnOutcome}}

\* Mutant of SpawnWithRecovery: the retry does not depend on the reset.
SpawnWithRecovery_retries_anyway(s) ==
  UNION {IF ~q.ret THEN {Ret(q, FALSE)}
         ELSE LET c == Poll(q) IN
              IF c.ret = None THEN {Ret(c, TRUE)}
              ELSE UNION {RetrySpawn(r) : r \in reset_virtual_device(c)}
         : q \in {PopenAndSleep(s, oc) : oc \in SpawnOutcome}}

\* Lines 516-569: spawn, settle, check; on early death one reset and one retry.
SpawnWithRecovery(s) ==
  UNION {IF ~q.ret THEN {Ret(q, FALSE)}
         ELSE LET c == Poll(q) IN
              IF c.ret = None THEN {Ret(c, TRUE)}
              ELSE UNION {IF r.ret THEN RetrySpawn(r) ELSE {Ret(r, FALSE)}
                          : r \in reset_virtual_device(c)}
         : q \in {PopenAndSleep(s, oc) : oc \in SpawnOutcome}}

\* Mutant of AfterDetect: the virtual device file is looked at before the
\* driver is ensured.
AfterDetect_verify_first(s) ==
  LET v == verify_virtual_device(s) IN
  IF ~v.ret THEN {Ret(v, FALSE)}
  ELSE UNION {IF ~e.ret THEN {Ret(e, FALSE)} ELSE SpawnWithRecovery(e)
              : e \in ensure_v4l2loopback_loaded(v)}

\* Lines 490-498: driver loaded, then the virtual device file, then the spawn.
AfterDetect(s) ==
  UNION {IF ~e.ret THEN {Ret(e, FALSE)}
         ELSE LET v == verify_virtual_device(e) IN
              IF ~v.ret THEN {Ret(v, FALSE)} ELSE SpawnWithRecovery(v)
         : e \in ensure_v4l2loopback_loaded(s)}

\* Mutant of start_streaming: the "already streaming" check is missing.
start_streaming_unguarded(s) ==
  UNION {LET t == [d EXCEPT !.elgato_device = d.ret] IN
         IF t.elgato_device = None THEN {Ret(t, FALSE)} ELSE AfterDetect(t)
         : d \in detect_elgato_camera(s)}

\* Mutant of start_streaming: the result of the detection is looked at only
\* after the driver was ensured.
start_streaming_late_check(s) ==
  LET a == is_streaming(s) IN
  IF a.ret THEN {Ret(a, TRUE)}
  ELSE UNION {LET t == [d EXCEPT !.elgato_device = d.ret] IN
              UNION {IF ~e.ret \/ t.elgato_device = None THEN {Ret(e, FALSE)}
                     ELSE LET v == verify_virtual_device(e) IN
                          IF ~v.ret THEN {Ret(v, FALSE)} ELSE SpawnWithRecovery(v)
                     : e \in ensure_v4l2loopback_loaded(t)}
              : d \in detect_elgato_camera(a)}

start_streaming(s) ==
  LET a == is_streaming(s) IN
  IF a.ret THEN {Ret(a, TRUE)}
  ELSE UNION {LET t == [d EXCEPT !.elgato_device = d.ret] IN
              IF t.elgato_device = None THEN {Ret(t, FALSE)} ELSE AfterDetect(t)
              : d \in detect_elgato_camera(a)}

\* Mutant of StopWith: the handle is kept after the child was waited for.
StopWith_keeps_handle(s, term, stale) ==
  IF s.ffmpeg_process = NoProcess THEN Ret(s, TRUE)
  ELSE LET p == s.ffmpeg_process
           g == Do(s, "getpgid")
           w == Do(Do(g, "SIGTERM"), "wait5")
       IN IF s.procs[p] = "reaped"
          THEN IF stale = "gone" THEN Ret(g, FALSE) ELSE Ret(w, TRUE)
          ELSE IF s.procs[p] = "exited" \/ term = "exits"
          THEN Ret([w EXCEPT !.procs[p] = "reaped"], TRUE)
          ELSE LET k == Do(Do(Do(Do(w, "TimeoutExpired"), "getpgid"), "SIGKILL"), "wait")
               IN Ret([k EXCEPT !.procs[p] = "reaped"], TRUE)

\* Mutant of StopWith: SIGKILL is sent whether or not the 5 s wait timed out.
StopWith_always_kills(s, term, stale) ==
  IF s.ffmpeg_process = NoProcess THEN Ret(s, TRUE)
  ELSE LET p == s.ffmpeg_process
           g == Do(s, "getpgid")
           w == Do(Do(g, "SIGTERM"), "wait5")
           k == Do(Do(Do(w, "getpgid"), "SIGKILL"), "wait")
       IN IF s.procs[p] = "reaped"
          THEN IF stale = "gone" THEN Ret(g, FALSE)
               ELSE Ret([w EXCEPT !.ffmpeg_process = NoProcess], TRUE)
          ELSE Ret([k EXCEPT !.procs[p] = "reaped", !.ffmpeg_process = NoProcess], TRUE)

\* stop_streaming.  `term` says whether the child exits within the 5 s wait
\* after SIGTERM; if it does not, wait(timeout=5) raises TimeoutExpired.  `stale` decides the one case the code leaves to the OS: the
\* handle is of a child already reaped, so its pid is either unused (getpgid
\* raises ProcessLookupError) or reused by a foreign process.
StopWith(s, term, stale) ==
  IF s.ffmpeg_process = NoProcess THEN Ret(s, TRUE)
  ELSE LET p == s.ffmpeg_process
           g == Do(s, "getpgid")
           w == Do(Do(g, "SIGTERM"), "wait5")
       IN IF s.procs[p] = "reaped"
          THEN IF stale = "gone" THEN Ret(g, FALSE)
               ELSE Ret([w EXCEPT !.ffmpeg_process = NoProcess], TRUE)
          ELSE IF s.procs[p] = "exited" \/ term = "exits"
          THEN Ret([w EXCEPT !.procs[p] = "reaped", !.ffmpeg_process = NoProcess], TRUE)
          ELSE LET k == Do(Do(Do(Do(w, "TimeoutExpired"), "getpgid"), "SIGKILL"), "wait")
               IN Ret([k EXCEPT !.procs[p] = "reaped", !.ffmpeg_process = NoProcess], TRUE)

stop_streaming(s) ==
  {StopWith(s, term, stale) : term \in {"exits", "ignores"}, stale \in {"gone", "reused"}}

\* ---------------------------------------------------------- SystemTray

show_notification(s) == Do(s, "notify")

\* get_status: ret = <<status, message>>.
get_status(s) ==
  LET a == is_streaming(s) IN
  IF a.ret THEN {Ret(a, <<"on", "streaming">>)}
  ELSE LET b == Do(a, "exists") IN
       IF ~b.vdevExists THEN {Ret(b, <<"error", "virtual device not found">>)}
       ELSE IF b.elgato_device # None THEN {Ret(b, <<"off", b.elgato_device>>)}
       ELSE {IF d.ret # None THEN Ret(d, <<"off", d.ret>>)
             ELSE Ret(d, <<"error", "camera not detected">>)
             : d \in detect_elgato_camera(b)}

\* The recovery starting the transcoder again after a reset that succeeded.
attempt_recovery_restarts(s) ==
  LET a == is_streaming(Do(s, "attempt_recovery"))
      stopped == IF a.ret THEN stop_streaming(a) ELSE {a}
  IN UNION {{Ret(show_notification(IF r.ret /\ Spawned(r) < MaxSpawns
                                  THEN PopenAndSleep(r, "alive") ELSE r), None)
             : r \in reset_virtual_device(b)}
            : b \in stopped}

attempt_recovery(s) ==
  LET a == is_streaming(Do(s, "attempt_recovery"))
      stopped == IF a.ret THEN stop_streaming(a) ELSE {a}
  IN UNION {{Ret(show_notification(r), None) : r \in reset_virtual_device(b)}
            : b \in stopped}

\* One more update_status() call in the window of the last calls: how it
\* classified, the counter it found, and how often it invoked the recovery
\* (g is the state when get_status returned, s the state at the end).
Polled(g, s) ==
  LET e == [status |-> g.ret[1], before |-> g.consecutive_errors,
            recoveries |-> Count(s.trace, "attempt_recovery")
                           - Count(g.trace, "attempt_recovery"),
            reset_ok |-> Count(s.trace, "log: reset ok") > Count(g.trace, "log: reset ok")]
      h == Append(s.polls, e)
  IN [s EXCEPT !.polls = IF Len(h) > MaxConsecutiveErrors THEN Tail(h) ELSE h]

\* The status line written on every poll, changed or not.
LogStatus_unthrottled(g) == [Do(g, "log status") EXCEPT !.last_status = g.ret]

\* The log throttle of update_status (lines 761-764); last_status is <<>>
\* while the attribute _last_status does not exist.
LogStatus(g) ==
  IF g.last_status # g.ret
  THEN [Do(g, "log status") EXCEPT !.last_status = g.ret]
  ELSE g

\* Mutant of AfterStatus: the threshold is compared with > instead of >=.
AfterStatus_off_by_one(g) ==
  LET l == LogStatus(g) IN
  IF g.ret[1] = "error"
  THEN LET c == [l EXCEPT !.consecutive_errors = @ + 1] IN
       IF c.consecutive_errors > MaxConsecutiveErrors
       THEN {Polled(g, [r EXCEPT !.consecutive_errors = 0]) : r \in attempt_recovery(c)}
       ELSE {Polled(g, c)}
  ELSE {Polled(g, [l EXCEPT !.consecutive_errors = 0])}

\* Mutant of AfterStatus: a poll that is not degraded leaves the counter.
AfterStatus_no_reset_on_ok(g) ==
  LET l == LogStatus(g) IN
  IF g.ret[1] = "error"
  THEN LET c == [l EXCEPT !.consecutive_errors = @ + 1] IN
       IF c.consecutive_errors >= MaxConsecutiveErrors
       THEN {Polled(g, [r EXCEPT !.consecutive_errors = 0]) : r \in attempt_recovery(c)}
       ELSE {Polled(g, c)}
  ELSE {Polled(g, l)}

\* Mutant of AfterStatus: the counter is left as it is after the recovery.
AfterStatus_keeps_counter(g) ==
  LET l == LogStatus(g) IN
  IF g.ret[1] = "error"
  THEN LET c == [l EXCEPT !.consecutive_errors = @ + 1] IN
       IF c.consecutive_errors >= MaxConsecutiveErrors
       THEN {Polled(g, r) : r \in attempt_recovery(c)}
       ELSE {Polled(g, c)}
  ELSE {Polled(g, [l EXCEPT !.consecutive_errors = 0])}

\* Lines 761-774 of update_status, after get_status returned g.ret.
AfterStatus(g) ==
  LET status == g.ret[1]
      l == LogStatus(g)
  IN IF status = "error"
     THEN LET c == [l EXCEPT !.consecutive_errors = @ + 1] IN
          IF c.consecutive_errors >= MaxConsecutiveErrors
          THEN {Polled(g, [r EXCEPT !.consecutive_errors = 0])
                : r \in attempt_recovery(c)}
          ELSE {Polled(g, c)}
     ELSE {Polled(g, [l EXCEPT !.consecutive_errors = 0])}

update_status(s) == UNION {{Ret(r, None) : r \in AfterStatus(g)} : g \in get_status(s)}

toggle_streaming(s) ==
  LET a == is_streaming(s)
      done == IF a.ret THEN stop_streaming(a) ELSE start_streaming(a)
  IN UNION {update_status(show_notification(d)) : d \in done}

\* SystemTray.reset_virtual_device, the tray's "Reset Virtual Device" command.
tray_reset_virtual_device(s) ==
  LET a == is_streaming(s)
      stopped == IF a.ret THEN stop_streaming(a) ELSE {a}
  IN UNION {UNION {update_status(show_notification(r)) : r \in reset_virtual_device(b)}
            : b \in stopped}

\* ------------------------------------------------------- ConfigManager

\* A JSON value is a tree: a function from the key paths that exist in it to
\* the scalar stored there, or to DictMark where a mapping is stored. The
\* empty path is the value itself.
DictMark == "<dict>"
Scalar(v) == (<<>> :> v)
EmptyDict == Scalar(DictMark)
IsDict(t) == t[<<>>] = DictMark

IsPrefix(p, q) == Len(p) <= Len(q) /\ SubSeq(q, 1, Len(p)) = p

\* value[k], along a path: the tree stored at path p of t.
Sub(t, p) ==
  LET below == {q \in DOMAIN t : IsPrefix(p, q)} IN
  [r \in {SubSeq(q, Len(p) + 1, Len(q)) : q \in below} |-> t[p \o r]]

\* base[k] = v, along a path: t with the tree v stored at path p.
Put(t, p, v) ==
  LET keep == {q \in DOMAIN t : ~IsPrefix(p, q)}
      new == {p \o r : r \in DOMAIN v} IN
  [q \in keep \cup new |->
     IF q \in new THEN v[SubSeq(q, Len(p) + 1, Len(q))] ELSE t[q]]

\* The keys of a mapping, and those of them that hold a mapping.
TopKeys(t) == {q[1] : q \in {r \in DOMAIN t : Len(r) = 1}}
DictKeys(t) == {k \in TopKeys(t) : t[<<k>>] = DictMark}

\* ConfigManager.default_config as __init__ builds it.
DefaultConfig ==
  LET leaves ==
        (<<"virtual_device">> :> "/dev/video10") @@
        (<<"virtual_device_label">> :> "VirtualCam") @@
        (<<"ffmpeg_params", "framerate">> :> "30") @@
        (<<"ffmpeg_params", "input_format">> :> "uyvy422") @@
        (<<"ffmpeg_params", "video_size">> :> "1280x720") @@
        (<<"ffmpeg_params", "output_format">> :> "yuv420p") @@
        (<<"ui", "show_notifications">> :> "True") @@
        (<<"ui", "start_minimized">> :> "True") @@
        (<<"ui", "update_interval">> :> "5000") @@
        (<<"logging", "level">> :> "INFO") @@
        (<<"logging", "file">> :> "virtualcam.log")
      dicts == {<<>>, <<"ffmpeg_params">>, <<"ui">>, <<"logging">>}
  IN leaves @@ [q \in dicts |-> DictMark]

\* key.split('.'): a key is written as its names and "." separators, and
\* splits into the names between the separators ("" where there is none).
RECURSIVE SplitFrom(_, _)
SplitFrom(key, cur) ==
  IF key = <<>> THEN <<cur>>
  ELSE IF Head(key) = "." THEN <<cur>> \o SplitFrom(Tail(key), "")
       ELSE SplitFrom(Tail(key), Head(key))

Split(key) == SplitFrom(key, "")

\* The loop of get() always answering None where it gives up.
RECURSIVE GetFrom_returns_none(_, _, _)
GetFrom_returns_none(value, keys, default) ==
  IF keys = <<>> THEN value
  ELSE IF IsDict(value) /\ <<Head(keys)>> \in DOMAIN value
       THEN GetFrom_returns_none(Sub(value, <<Head(keys)>>), Tail(keys), default)
       ELSE Scalar(None)

\* The loop of get(): descend while the value is a mapping holding the key.
RECURSIVE GetFrom(_, _, _)
GetFrom(value, keys, default) ==
  IF keys = <<>> THEN value
  ELSE IF IsDict(value) /\ <<Head(keys)>> \in DOMAIN value
       THEN GetFrom(Sub(value, <<Head(keys)>>), Tail(keys), default)
       ELSE default

get(cfg, key, default) == GetFrom(cfg, Split(key), default)

\* The loop of set() and its final assignment, with `at` the path of the
\* object the loop variable `config` refers to. Membership in, indexing of
\* and assignment into anything but a mapping raise TypeError.
RECURSIVE SetFrom(_, _, _, _)
SetFrom(cfg, at, keys, value) ==
  IF cfg[at] # DictMark THEN [config |-> cfg, raised |-> "TypeError"]
  ELSE IF Len(keys) = 1
       THEN [config |-> Put(cfg, at \o keys, value), raised |-> None]
       ELSE LET k == Head(keys)
                made == IF at \o <<k>> \in DOMAIN cfg THEN cfg
                        ELSE Put(cfg, at \o <<k>>, EmptyDict)
            IN SetFrom(made, at \o <<k>>, Tail(keys), value)

\* The persisted file: absent, not parseable, or holding a JSON value.
FileAbsent == [state |-> "absent", tree |-> EmptyDict]
FileMalformed == [state |-> "malformed", tree |-> EmptyDict]
FileOf(t) == [state |-> "json", tree |-> t]

\* How save_config's open(..., 'w') and json.dump() can end: the file is
\* written, or the write raises after open() has truncated the file.
SaveOutcome == {"ok", "truncated"}

save_config(cfg, file, oc) ==
  IF oc = "ok" THEN FileOf(cfg) ELSE FileMalformed

\* default_config.copy() is shallow: the mappings stored under the keys in
\* `sh` are the same objects in config and default_config, so default_config
\* shows what config holds under them.
AliasInto(dflt, cfg, sh) ==
  LET keep == {q \in DOMAIN dflt : q = <<>> \/ q[1] \notin sh}
      from == {q \in DOMAIN cfg : q # <<>> /\ q[1] \in sh} IN
  [q \in keep \cup from |-> IF q \in from THEN cfg[q] ELSE dflt[q]]

\* The merge replacing every key of base by the file's value (dict.update).
RECURSIVE MergeKeys_shallow(_, _, _)
MergeKeys_shallow(base, update, ks) ==
  IF ks = {} THEN base
  ELSE LET key == CHOOSE k \in ks : TRUE IN
       MergeKeys_shallow(Put(base, <<key>>, Sub(update, <<key>>)), update, ks \ {key})

\* _deep_merge: the loop over update.items(), ks the keys still to come.
RECURSIVE MergeKeys(_, _, _)
MergeKeys(base, update, ks) ==
  IF ks = {} THEN base
  ELSE LET key == CHOOSE k \in ks : TRUE
           value == Sub(update, <<key>>)
           merged ==
             IF /\ <<key>> \in DOMAIN base
                /\ IsDict(Sub(base, <<key>>))
                /\ IsDict(value)
             THEN Put(base, <<key>>,
                      MergeKeys(Sub(base, <<key>>), value, TopKeys(value)))
             ELSE Put(base, <<key>>, value)
       IN MergeKeys(merged, update, ks \ {key})

deep_merge(base, update) == MergeKeys(base, update, TopKeys(update))

\* load_config answering an empty configuration where the file cannot be used.
load_config_empty_on_error(dflt, file) ==
  IF file.state = "json" /\ IsDict(file.tree)
  THEN LET merged == deep_merge(dflt, file.tree)
           sh == {k \in DictKeys(dflt) :
                    <<k>> \notin DOMAIN file.tree \/ file.tree[<<k>>] = DictMark}
       IN [config |-> merged, shared |-> sh,
           default_config |-> AliasInto(dflt, merged, sh)]
  ELSE [config |-> EmptyDict, shared |-> {}, default_config |-> dflt]

\* load_config on a manager whose default_config is dflt: the configuration
\* returned, the keys left shared with default_config, and default_config
\* as the merge leaves it. A file that does not parse, or parses to
\* something without items(), raises inside the try and gives the defaults.
load_config(dflt, file) ==
  IF file.state = "json" /\ IsDict(file.tree)
  THEN LET merged == deep_merge(dflt, file.tree)
           sh == {k \in DictKeys(dflt) :
                    <<k>> \notin DOMAIN file.tree \/ file.tree[<<k>>] = DictMark}
       IN [config |-> merged, shared |-> sh,
           default_config |-> AliasInto(dflt, merged, sh)]
  ELSE [config |-> dflt, shared |-> DictKeys(dflt), default_config |-> dflt]

\* ConfigManager as one record.
Manager ==
  [config |-> config, default_config |-> default_config, shared |-> shared,
   config_file |-> config_file, raised |-> None]

\* set(key, value), with save_config ending in `oc`. A TypeError leaves the
\* method before save_config. An assignment to a top-level key makes config
\* hold an object of its own under it.
set(m, key, value, oc) ==
  LET keys == Split(key)
      w == SetFrom(m.config, <<>>, keys, value)
      sh == IF w.raised = None /\ Len(keys) = 1 THEN m.shared \ {keys[1]}
            ELSE m.shared
  IN [config |-> w.config,
      default_config |-> AliasInto(m.default_config, w.config, sh),
      shared |-> sh,
      config_file |-> IF w.raised = None
                      THEN save_config(w.config, m.config_file, oc)
                      ELSE m.config_file,
      raised |-> w.raised]

\* No ConfigManager method has been called since construction.
NoConfigCall ==
  [op |-> "init", key |-> <<>>, arg |-> Scalar(None), ret |-> Scalar(None),
   raised |-> None]

\* ConfigManager.__init__ has run in front of the file config_file.
ConfigConstructed ==
  LET m == load_config(DefaultConfig, config_file) IN
  /\ config = m.config
  /\ default_config = m.default_config
  /\ shared = m.shared
  /\ configCall = NoConfigCall

\* app.exec_() has just been entered: no event is queued, no handler is
\* executing, no signal is pending and quit has not been asked for. `calls`
\* are the blocking calls the operation in execution may still make, and
\* `blocked` says that it is inside the first of them. `pc` is the statement
\* a start_streaming() call in execution has reached and `child` the Popen
\* object it has created and not yet stored in self.ffmpeg_process.
Idle ==
  [queue |-> <<>>, stack |-> <<>>, pending |-> FALSE, quit |-> FALSE,
   calls |-> <<>>, blocked |-> FALSE, pc |-> "idle", child |-> NoProcess]

\* SystemTray.__init__ line 633: no status dialog has been created.
NoDialog == [created |-> FALSE, action_buttons |-> {}]

\* VirtualCamApp.__init__ has run to its end: the configuration directory
\* exists and the log file in it is open.
Started == [pc |-> "initialized", config_dir |-> TRUE, log |-> TRUE]

\* The tray controller virtualcam-tray.py is not running: `unit` is the state
\* of elgato-virtualcam.service, `shown` the status the tray displays, `slot`
\* the slot its toggle menu entry is connected to.
NoService == [unit |-> "inactive", shown |-> None, slot |-> None]

\* No operation has returned since construction.
NoCall == [op |-> "init", ret |-> None, trace |-> <<>>, liveUnload |-> FALSE]

\* ----------------------------------------------------------- behaviour

\* CameraManager.__init__ and lines 628-630 of SystemTray.__init__ have run;
\* the update_status() call that ends SystemTray.__init__ is the first Tick.
\* The OS is in any state: camera plugged or not, module loaded or not.
Init ==
  /\ ffmpeg_process = NoProcess
  /\ elgato_device = None
  /\ consecutive_errors = 0
  /\ last_status = <<>>
  /\ procs = [p \in Pids |-> "unborn"]
  /\ listing \in Listings
  /\ moduleLoaded \in BOOLEAN
  /\ vdevExists \in {FALSE, moduleLoaded}
  /\ lastCall = NoCall
  /\ polls = <<>>
  /\ config_file = FileAbsent
  /\ ConfigConstructed
  /\ dispatch = Idle
  /\ status_dialog = NoDialog
  /\ startup = Started
  /\ service = NoService

\* A Python bool as the caller sees it.
PyBool(b) == IF b THEN "True" ELSE "False"

\* The call or step `op` gave `ret` and leaves the controller and the OS as r.
Leaves(op, r, ret) ==
  /\ ffmpeg_process' = r.ffmpeg_process
  /\ elgato_device' = r.elgato_device
  /\ consecutive_errors' = r.consecutive_errors
  /\ last_status' = r.last_status
  /\ procs' = r.procs
  /\ listing' = r.listing
  /\ moduleLoaded' = r.moduleLoaded
  /\ vdevExists' = r.vdevExists
  /\ polls' = r.polls
  /\ lastCall' = [op |-> op, ret |-> ret, trace |-> r.trace,
                  liveUnload |-> r.liveUnload]
  /\ UNCHANGED <<startup, service>>

\* The call `op` returned `ret`, leaving the state r.
Returns(op, r, ret) ==
  /\ Leaves(op, r, ret)
  /\ status_dialog' = [status_dialog EXCEPT !.action_buttons = r.action_buttons]
  /\ UNCHANGED <<cvars, dispatch>>

\* A call that may spawn is taken only while pids are left for both spawns.
SpawnRoom == Spawned(Cur) + 2 <= MaxSpawns

IsStreamingCall ==
  LET r == is_streaming(Cur) IN Returns("is_streaming", r, PyBool(r.ret))
DetectCall ==
  \E r \in detect_elgato_camera(Cur) : Returns("detect", r, r.ret)
EnsureCall ==
  \E r \in ensure_v4l2loopback_loaded(Cur) : Returns("ensure", r, PyBool(r.ret))
ResetCall ==
  \E r \in reset_virtual_device(Cur) : Returns("reset", r, PyBool(r.ret))
StartCall ==
  SpawnRoom /\ \E r \in start_streaming(Cur) : Returns("start", r, PyBool(r.ret))
StopCall ==
  \E r \in stop_streaming(Cur) : Returns("stop", r, PyBool(r.ret))
Tick ==
  \E r \in update_status(Cur) : Returns("update_status", r, None)
Toggle ==
  SpawnRoom /\ \E r \in toggle_streaming(Cur) : Returns("toggle", r, None)
TrayReset ==
  \E r \in tray_reset_virtual_device(Cur) : Returns("tray_reset", r, None)

\* The environment, between calls.
Env == [op |-> "env", ret |-> None, trace |-> <<>>, liveUnload |-> FALSE]

EnvProcessExits ==
  /\ \E p \in Pids : procs[p] = "running" /\ procs' = [procs EXCEPT ![p] = "exited"]
  /\ lastCall' = Env
  /\ UNCHANGED <<cvars, dispatch, status_dialog, startup, service>>
  /\ UNCHANGED <<ffmpeg_process, elgato_device, consecutive_errors, last_status,
                 listing, moduleLoaded, vdevExists, polls>>

EnvCamera ==
  /\ \E l \in Listings \ {listing} : listing' = l
  /\ lastCall' = Env
  /\ UNCHANGED <<cvars, dispatch, status_dialog, startup, service>>
  /\ UNCHANGED <<ffmpeg_process, elgato_device, consecutive_errors, last_status,
                 procs, moduleLoaded, vdevExists, polls>>

EnvModuleUnloaded ==
  /\ moduleLoaded
  /\ moduleLoaded' = FALSE
  /\ vdevExists' = FALSE
  /\ lastCall' = Env
  /\ UNCHANGED <<cvars, dispatch, status_dialog, startup, service>>
  /\ UNCHANGED <<ffmpeg_process, elgato_device, consecutive_errors, last_status,
                 procs, listing, polls>>

\* Other software loads the module, with or without the configured video_nr.
EnvModuleLoaded ==
  /\ ~moduleLoaded
  /\ moduleLoaded' = TRUE
  /\ vdevExists' \in BOOLEAN
  /\ lastCall' = Env
  /\ UNCHANGED <<cvars, dispatch, status_dialog, startup, service>>
  /\ UNCHANGED <<ffmpeg_process, elgato_device, consecutive_errors, last_status,
                 procs, listing, polls>>

Next ==
  \/ IsStreamingCall
  \/ DetectCall
  \/ EnsureCall
  \/ ResetCall
  \/ StartCall
  \/ StopCall
  \/ Tick
  \/ Toggle
  \/ TrayReset
  \/ EnvProcessExits
  \/ EnvCamera
  \/ EnvModuleUnloaded
  \/ EnvModuleLoaded

Spec == Init /\ [][Next]_vars

\* ------------------------------------------- the configuration manager

\* Everything but the configuration manager and its file.
camvars == <<ffmpeg_process, elgato_device, consecutive_errors, last_status,
             procs, listing, moduleLoaded, vdevExists, lastCall, polls, dispatch,
             status_dialog, startup, service>>

\* Dotted keys: a top-level scalar, a nested leaf, a top-level mapping, a
\* key below a default scalar, and a key three levels deep with no level
\* present and nothing between two of its separators ('audio..rate').
Keys ==
  {<<"virtual_device">>,
   <<"ffmpeg_params", ".", "framerate">>,
   <<"ffmpeg_params">>,
   <<"virtual_device", ".", "nr">>,
   <<"audio", ".", ".", "rate">>}

\* Values given to set(): a scalar and a mapping.
Values == {Scalar("60"), Put(EmptyDict, <<"framerate">>, Scalar("24"))}

\* Defaults given to get(): none (None) and a value.
Defaults == {Scalar(None), Scalar("fallback")}

\* Persisted files: none, unparseable, a JSON value that is no object,
\* partial overrides at top level and inside a mapping, a scalar where the
\* defaults hold a mapping, a mapping where they hold a scalar. (A file with
\* keys unknown to the defaults is what set('audio..rate', v) saves.)
Files ==
  {FileAbsent, FileMalformed, FileOf(Scalar("5")),
   FileOf(Put(EmptyDict, <<"virtual_device">>, Scalar("/dev/video15"))),
   FileOf(Put(Put(EmptyDict, <<"ffmpeg_params">>, EmptyDict),
              <<"ffmpeg_params", "framerate">>, Scalar("60"))),
   FileOf(Put(EmptyDict, <<"ffmpeg_params">>, Scalar("fast"))),
   FileOf(Put(Put(EmptyDict, <<"virtual_device">>, EmptyDict),
              <<"virtual_device", "nr">>, Scalar("15")))}

InitConfig ==
  /\ ffmpeg_process = NoProcess
  /\ elgato_device = None
  /\ consecutive_errors = 0
  /\ last_status = <<>>
  /\ procs = [p \in Pids |-> "unborn"]
  /\ listing = LsPresent
  /\ moduleLoaded = FALSE
  /\ vdevExists = FALSE
  /\ lastCall = NoCall
  /\ polls = <<>>
  /\ config_file \in Files
  /\ ConfigConstructed
  /\ dispatch = Idle
  /\ status_dialog = NoDialog
  /\ startup = Started
  /\ service = NoService

\* ConfigManager(): a new manager replaces the one in use.
ConfigNew ==
  LET m == load_config(DefaultConfig, config_file) IN
  /\ config' = m.config
  /\ default_config' = m.default_config
  /\ shared' = m.shared
  /\ configCall' = [NoConfigCall EXCEPT !.op = "new"]
  /\ UNCHANGED <<config_file, camvars>>

ConfigGet ==
  \E key \in Keys, d \in Defaults :
    /\ configCall' = [op |-> "get", key |-> key, arg |-> d,
                      ret |-> get(config, key, d), raised |-> None]
    /\ UNCHANGED <<config, default_config, shared, config_file, camvars>>

ConfigSet ==
  \E key \in Keys, v \in Values, oc \in SaveOutcome :
    LET m == set(Manager, key, v, oc) IN
    /\ config' = m.config
    /\ default_config' = m.default_config
    /\ shared' = m.shared
    /\ config_file' = m.config_file
    /\ configCall' = [op |-> "set", key |-> key, arg |-> v,
                      ret |-> Scalar(None), raised |-> m.raised]
    /\ UNCHANGED camvars

NextConfig ==
  \/ ConfigNew
  \/ ConfigGet
  \/ ConfigSet

SpecConfig == InitConfig /\ [][NextConfig]_vars

\* ------------------------------------------------------------- properties

\* Ground truth: a process the controller spawned is running.
OwnedProcessRunning == \E p \in Pids : procs[p] = "running"

\* The events of a trace.
Events(trace) == {trace[i] : i \in 1..Len(trace)}

\* What the OS and the controller hold besides the bookkeeping of the call.
world == <<ffmpeg_process, elgato_device, procs, listing, moduleLoaded, vdevExists>>

\* C1: in every reachable state, hence right after every start_streaming()
\* or stop_streaming() call whatever exits of the transcoder interleave,
\* is_streaming() returns true iff a process the supervisor spawned is running.
C1_IsStreamingIsGroundTruth == is_streaming(Cur).ret = OwnedProcessRunning

\* A start that failed after its child died left the handle of a dead child,
\* and is_streaming() still answers false.
C1_Witness ==
  /\ lastCall.op = "start"
  /\ lastCall.ret = "False"
  /\ ffmpeg_process # NoProcess
  /\ procs[ffmpeg_process] = "reaped"
  /\ ~is_streaming(Cur).ret

\* C2: the supervisor never owns two running transcoders.
C2_AtMostOneLiveProcess == Cardinality({p \in Pids : procs[p] = "running"}) <= 1

\* A later process runs after an earlier one was spawned.
C2_Witness == Spawned(Cur) >= 2 /\ OwnedProcessRunning

\* C3: start_streaming() called while the owned transcoder runs returns True,
\* runs no detection, no driver load or reset, spawns nothing and leaves the
\* handle and the process as they were.
C3_StartWhileStreamingIsNoOp ==
  [][(/\ lastCall'.op = "start"
      /\ ffmpeg_process # NoProcess
      /\ procs[ffmpeg_process] = "running")
     => /\ lastCall'.ret = "True"
        /\ Events(lastCall'.trace) \subseteq {"poll"}
        /\ UNCHANGED world]_vars

C3_Witness ==
  /\ lastCall.op = "start"
  /\ lastCall.ret = "True"
  /\ lastCall.trace = <<"poll">>
  /\ Spawned(Cur) = 1

\* C4: stop_streaming() without a handle returns True and touches nothing
\* (no getpgid, no signal, no wait); so does a stop directly after a stop that
\* returned True.
C4_StopWhenIdleIsNoOp ==
  [][(/\ lastCall'.op = "stop"
      /\ \/ ffmpeg_process = NoProcess
         \/ (lastCall.op = "stop" /\ lastCall.ret = "True"))
     => /\ lastCall'.ret = "True"
        /\ lastCall'.trace = <<>>
        /\ UNCHANGED world]_vars

\* A stop that returned True with nothing left to do, after a process had run.
C4_Witness ==
  /\ lastCall.op = "stop"
  /\ lastCall.ret = "True"
  /\ lastCall.trace = <<>>
  /\ Spawned(Cur) >= 1

\* C5: start_streaming() with nothing streaming whose detection finds no
\* device (the device is not enumerated, or the enumeration fails) returns
\* False, spawns nothing, issues no module load or unload and does not look
\* at the virtual device file.
C5_StartWithoutDeviceFailsFast ==
  [][(/\ lastCall'.op = "start"
      /\ ~OwnedProcessRunning
      /\ (ScanLines(listing, 1) = None \/ elgato_device' = None))
     => /\ lastCall'.ret = "False"
        /\ Events(lastCall'.trace) \subseteq {"poll", "v4l2-ctl"}
        /\ "v4l2-ctl" \in Events(lastCall'.trace)
        /\ Spawned(Cur)' = Spawned(Cur)
        /\ UNCHANGED <<moduleLoaded, vdevExists>>]_vars

C5_Witness ==
  /\ lastCall.op = "start"
  /\ lastCall.ret = "False"
  /\ lastCall.trace = <<"v4l2-ctl">>
  /\ listing = LsAbsent
  /\ vdevExists

\* C6: a reset_virtual_device() call that returns True leaves the module
\* loaded, and an ensure_v4l2loopback_loaded() call made directly after it
\* returns True having run the module list only, no load command.
C6_ResetSuccessLeavesDriverLoaded ==
  [][/\ (lastCall'.op = "reset" /\ lastCall'.ret = "True") => moduleLoaded'
     /\ (lastCall.op = "reset" /\ lastCall.ret = "True" /\ lastCall'.op = "ensure")
        => /\ lastCall'.ret = "True"
           /\ lastCall'.trace = <<"lsmod">>
           /\ UNCHANGED world]_vars

\* A reset has returned True, with both of its commands issued.
C6_Witness ==
  /\ lastCall.op = "reset"
  /\ lastCall.ret = "True"
  /\ lastCall.trace = <<"modprobe -r", "modprobe", "log: reset ok">>

\* The last update_status() call and the ones before it in the window.
LastPoll == polls[Len(polls)]
AllDegraded == \A i \in 1..Len(polls) : polls[i].status = "error"

\* C7: three consecutive update_status() calls classified 'error', the first
\* of them finding the counter at zero, invoke attempt_recovery() once, in
\* the third call, and not in the first two.
C7_ThirdDegradedPollRecovers ==
  (/\ Len(polls) = MaxConsecutiveErrors
   /\ AllDegraded
   /\ polls[1].before = 0)
  => /\ \A i \in 1..(MaxConsecutiveErrors - 1) : polls[i].recoveries = 0
     /\ LastPoll.recoveries = 1

C7_Witness ==
  /\ Len(polls) = MaxConsecutiveErrors
  /\ AllDegraded
  /\ polls[1].before = 0
  /\ lastCall.op = "update_status"
  /\ "attempt_recovery" \in Events(lastCall.trace)

\* C8: the counter is one more than before after a poll classified 'error'
\* that did not recover, and zero after a poll classified otherwise, so it
\* grows only on 'error'; and a poll invokes the recovery only if it and the
\* two polls before it were all classified 'error'.
C8_CounterCountsConsecutiveDegraded ==
  Len(polls) > 0 =>
    /\ LastPoll.status # "error" => consecutive_errors = 0
    /\ (LastPoll.status = "error" /\ LastPoll.recoveries = 0)
       => consecutive_errors = LastPoll.before + 1
    /\ consecutive_errors > LastPoll.before => LastPoll.status = "error"
    /\ LastPoll.recoveries > 0 => (Len(polls) = MaxConsecutiveErrors /\ AllDegraded)

\* Degraded twice, then ready, then degraded again: the counter restarted.
C8_Witness ==
  /\ Len(polls) = MaxConsecutiveErrors
  /\ polls[1].status = "error" /\ polls[1].before = 1
  /\ polls[2].status = "off"
  /\ polls[3].status = "error" /\ polls[3].recoveries = 0
  /\ consecutive_errors = 1

\* C9: after a poll that invoked the recovery the counter is zero, whether
\* the reset of the recovery succeeded or not, and neither of the two polls
\* before it invoked the recovery: two recoveries are at least three polls
\* apart.
C9_CounterZeroAfterRecovery ==
  (Len(polls) > 0 /\ LastPoll.recoveries > 0)
  => /\ consecutive_errors = 0
     /\ \A i \in 1..(Len(polls) - 1) : polls[i].recoveries = 0

\* A recovery whose reset failed, three polls after a recovery.
C9_Witness ==
  /\ Len(polls) = MaxConsecutiveErrors
  /\ LastPoll.recoveries = 1
  /\ ~LastPoll.reset_ok
  /\ polls[1].before = 0
  /\ consecutive_errors = 0
  /\ ~moduleLoaded

\* C10: a start_streaming() call spawns at most twice and resets at most
\* once; it resets exactly when its first child has exited by the settle
\* check; it spawns again only after a reset that succeeded, and after such a
\* reset it does try again; a failed reset ends the call with False after one
\* spawn; and a call that spawned returns True iff the child it spawned last
\* is running.
C10_OneRecoveryCyclePerStart ==
  [][lastCall'.op = "start" =>
     LET tr == lastCall'.trace
         first == Spawned(Cur) + 1
         nSpawn == Count(tr, "Popen")
         nReset == Count(tr, "modprobe -r")
         resetOk == "log: reset ok" \in Events(tr)
     IN /\ nSpawn <= 2
        /\ nReset <= 1
        /\ nSpawn = Spawned(Cur)' - Spawned(Cur)
        /\ nSpawn = 0 => nReset = 0
        /\ nSpawn >= 1 =>
             /\ lastCall'.ret = "True" <=> procs'[Spawned(Cur)'] = "running"
             /\ nReset = 1 <=> procs'[first] # "running"
             /\ nSpawn = 2 => resetOk
             /\ resetOk => nSpawn + Count(tr, "Popen failed") = 2
             /\ (nReset = 1 /\ ~resetOk) => (nSpawn = 1 /\ lastCall'.ret = "False")]_vars

\* A start whose first child died and whose second child survived.
C10_Witness ==
  /\ lastCall.op = "start"
  /\ lastCall.ret = "True"
  /\ Count(lastCall.trace, "Popen") = 2
  /\ Count(lastCall.trace, "modprobe -r") = 1

\* C11: between operations a handle that is held is of a child that runs or
\* has exited without having been reaped yet; no handle is kept of a child
\* whose exit a poll has confirmed.
C11_HandleNeverOfReapedChild ==
  ffmpeg_process # NoProcess => procs[ffmpeg_process] \in {"running", "exited"}

\* C12: stop_streaming() called with a handle held returns True and clears
\* the handle, also when an os call of the termination raises.
C12_StopWithHandleSucceeds ==
  [][(lastCall'.op = "stop" /\ ffmpeg_process # NoProcess)
     => (lastCall'.ret = "True" /\ ffmpeg_process' = NoProcess)]_vars

\* The os and Popen calls of a stop that ends after the 5 s wait, and of one
\* that escalates.
GracefulStop == <<"getpgid", "SIGTERM", "wait5">>
ForcedStop == GracefulStop \o <<"TimeoutExpired", "getpgid", "SIGKILL", "wait">>

\* C13: stop_streaming() on a running transcoder signals the process group
\* with SIGTERM first and waits up to 5 s; SIGKILL goes to the group only
\* after that wait timed out, and is followed by a wait; the call returns
\* True with the handle cleared and the child no longer running.  Every stop
\* that returns True leaves no handle and no running child.
C13_GracefulThenForcedStop ==
  [][lastCall'.op = "stop" =>
     /\ (ffmpeg_process # NoProcess /\ procs[ffmpeg_process] = "running")
        => /\ lastCall'.trace \in {GracefulStop, ForcedStop}
           /\ lastCall'.ret = "True"
           /\ procs'[ffmpeg_process] = "reaped"
     /\ "SIGKILL" \in Events(lastCall'.trace)
        => "TimeoutExpired" \in Events(lastCall'.trace)
     /\ lastCall'.ret = "True"
        => (ffmpeg_process' = NoProcess /\ ~OwnedProcessRunning')]_vars

\* A running transcoder that ignored SIGTERM was killed.
C13_Witness ==
  /\ lastCall.op = "stop"
  /\ lastCall.ret = "True"
  /\ lastCall.trace = ForcedStop
  /\ ffmpeg_process = NoProcess

\* The place of the first occurrence of ev in a trace that holds it.
First(trace, ev) == CHOOSE i \in 1..Len(trace) :
  trace[i] = ev /\ \A j \in 1..(i - 1) : trace[j] # ev

\* C14: in a start_streaming() call the driver is ensured only after the
\* detection found a device, the virtual device file is looked at only after
\* the driver was ensured with success, and a transcoder is spawned only after
\* the file was found; a step that fails ends the call with False and nothing
\* of the later steps is run.
C14_StartStepsInOrder ==
  [][lastCall'.op = "start" =>
     LET tr == lastCall'.trace
         ev == Events(tr)
         spawning == ev \cap {"Popen", "Popen failed"} # {}
     IN /\ "lsmod" \in ev
           => ("v4l2-ctl" \in ev /\ First(tr, "v4l2-ctl") < First(tr, "lsmod")
               /\ elgato_device' # None)
        /\ "exists" \in ev
           => ("lsmod" \in ev /\ First(tr, "lsmod") < First(tr, "exists")
               /\ ("modprobe -r" \notin ev => moduleLoaded'))
        /\ spawning
           => ("exists" \in ev
               /\ \A e \in ev \cap {"Popen", "Popen failed"} : First(tr, "exists") < First(tr, e)
               /\ ("modprobe -r" \notin ev => vdevExists'))
        /\ ("v4l2-ctl" \in ev /\ elgato_device' = None)
           => (lastCall'.ret = "False" /\ tr[Len(tr)] = "v4l2-ctl")
        /\ ("lsmod" \in ev /\ ~spawning /\ ~moduleLoaded')
           => (lastCall'.ret = "False" /\ tr[Len(tr)] = "modprobe")
        /\ ("exists" \in ev /\ ~spawning)
           => (lastCall'.ret = "False" /\ tr[Len(tr)] = "exists" /\ ~vdevExists')]_vars

\* A start that loaded the driver, found the file and spawned.
C14_Witness ==
  /\ lastCall.op = "start"
  /\ lastCall.ret = "True"
  /\ lastCall.trace = <<"v4l2-ctl", "lsmod", "modprobe", "exists", "Popen", "sleep", "poll">>

\* C15: an update_status() call classifies from the state it finds: 'on' if
\* the owned transcoder runs; else 'error' if the virtual device file is
\* missing; else 'error' if the camera is not enumerated at that moment,
\* whatever an earlier call found; else 'off' (or 'error' if the enumeration
\* command failed).
C15_PollClassifiesCurrentState ==
  [][lastCall'.op = "update_status" =>
     LET status == polls'[Len(polls')].status IN
     IF OwnedProcessRunning THEN status = "on"
     ELSE IF ~vdevExists THEN status = "error"
     ELSE IF ScanLines(listing, 1) = None THEN status = "error"
     ELSE status \in {"off", "error"}]_vars

\* ------------------------------------------- the scan of the enumeration

\* Longest enumeration output explored, in lines.
MaxLines == 4

\* The kinds of line an enumeration output is made of: the product's name
\* line, another line of text, an empty line, and indented device paths.
Lines ==
  {NameLine, MediaLine, BlankLine, PathLine("/dev/video0"), PathLine("/dev/video2")}

\* result.stdout.split('\n'): every sequence of at most MaxLines lines.
Outputs == UNION {[1..n -> Lines] : n \in 0..MaxLines}

\* A fresh CameraManager in front of any enumeration output.
InitDetect ==
  /\ ffmpeg_process = NoProcess
  /\ elgato_device = None
  /\ consecutive_errors = 0
  /\ last_status = <<>>
  /\ procs = [p \in Pids |-> "unborn"]
  /\ listing \in Outputs
  /\ moduleLoaded = FALSE
  /\ vdevExists = FALSE
  /\ lastCall = NoCall
  /\ polls = <<>>
  /\ config_file = FileAbsent
  /\ ConfigConstructed
  /\ dispatch = Idle
  /\ status_dialog = NoDialog
  /\ startup = Started
  /\ service = NoService

NextDetect == DetectCall

SpecDetect == InitDetect /\ [][NextDetect]_vars

\* The call that just returned was detect_elgato_camera() with the
\* enumeration command exiting 0.
DetectSucceeded ==
  LET r == DetectWith(Cur, "ok") IN Returns("detect", r, r.ret)

\* The name lines whose immediately following line is a device path.
Hits(lines) ==
  {i \in 1..(Len(lines) - 1) : lines[i].name /\ lines[i + 1].dev # None}

\* The first line after line i that is not empty, 0 when there is none.
NextNonEmpty(lines, i) ==
  LET later == {j \in (i + 1)..Len(lines) : ~lines[j].blank} IN
  IF later = {} THEN 0 ELSE CHOOSE j \in later : \A k \in later : j <= k

\* The name lines whose next non-empty line is a device path.
HitsSkippingBlanks(lines) ==
  {i \in 1..Len(lines) :
     /\ lines[i].name
     /\ NextNonEmpty(lines, i) # 0
     /\ lines[NextNonEmpty(lines, i)].dev # None}

\* C16 as stated: whenever some line with the product name is followed by a
\* line that is not a device path, detect_elgato_camera() returns None.
C16_NonPathAfterNameIsNotFound ==
  [][(/\ lastCall'.op = "detect"
      /\ \E i \in 1..(Len(listing) - 1) : listing[i].name /\ listing[i + 1].dev = None)
     => lastCall'.ret = None]_vars

\* C16 amended: when every line with the product name is the last line or is
\* followed by a line that is not a device path, detect_elgato_camera()
\* returns None (whatever the enumeration command's outcome).
C16_NoPathAfterAnyNameIsNotFound ==
  [][(lastCall'.op = "detect" /\ Hits(listing) = {}) => lastCall'.ret = None]_vars

\* Two name lines, neither followed by a device path, scanned to the end.
C16_Witness ==
  /\ lastCall.op = "detect"
  /\ lastCall.ret = None
  /\ Hits(listing) = {}
  /\ \E i, j \in 1..(Len(listing) - 1) :
       i < j /\ listing[i].name /\ listing[j].name /\ listing[j + 1] = MediaLine

\* C17 as stated: with the command succeeding, a path is returned iff some
\* name line's next non-empty line is a device path, and it is that line's.
C17_NextNonEmptyLineIsPath ==
  [][DetectSucceeded =>
       /\ lastCall'.ret # None <=> HitsSkippingBlanks(listing) # {}
       /\ lastCall'.ret # None =>
            \E i \in HitsSkippingBlanks(listing) :
              lastCall'.ret = listing[NextNonEmpty(listing, i)].dev]_vars

\* C17 amended: with the command succeeding, a path is returned iff some name
\* line's immediately following line is a device path, and then it is the
\* path on the line after the first such name line; blank lines are not
\* skipped.
C17_ImmediateNextLineIsPath ==
  [][DetectSucceeded =>
       /\ lastCall'.ret # None <=> Hits(listing) # {}
       /\ \A i \in Hits(listing) :
            (\A k \in Hits(listing) : i <= k) => lastCall'.ret = listing[i + 1].dev]_vars

\* A first name line without a path, then a name line with one: its path.
C17_Witness ==
  /\ lastCall.op = "detect"
  /\ lastCall.ret = "/dev/video2"
  /\ listing = <<NameLine, BlankLine, NameLine, PathLine("/dev/video2")>>

\* ------------------------------------------------- the dispatch context

\* Most events waiting in the Qt event queue, and deepest nesting of
\* handlers, explored.
MaxQueue == 2
MaxDepth == 3

\* Everything but the dispatch context.
appvars == <<ffmpeg_process, elgato_device, consecutive_errors, last_status,
             procs, listing, moduleLoaded, vdevExists, lastCall, polls, cvars,
             status_dialog, startup, service>>

\* The slots the tray menu triggers.
MenuSlots == {"toggle_streaming", "update_status", "reset_virtual_device", "quit"}

\* The QTimer times out: its update_status slot is queued. quit() stops it.
TimerFires ==
  /\ ~dispatch.quit
  /\ Len(dispatch.queue) < MaxQueue
  /\ dispatch' = [dispatch EXCEPT !.queue = Append(@, "update_status")]
  /\ UNCHANGED appvars

\* The user picks a menu entry: its slot is queued.
MenuTriggered ==
  /\ ~dispatch.quit
  /\ Len(dispatch.queue) < MaxQueue
  /\ \E slot \in MenuSlots :
       dispatch' = [dispatch EXCEPT !.queue = Append(@, slot)]
  /\ UNCHANGED appvars

\* The event loop, with no handler executing, calls the next queued slot.
\* After QApplication.quit() it calls none.
Dispatch ==
  /\ ~dispatch.quit
  /\ dispatch.stack = <<>>
  /\ dispatch.queue # <<>>
  /\ dispatch' = [dispatch EXCEPT !.stack = <<Head(dispatch.queue)>>,
                                  !.queue = Tail(@)]
  /\ UNCHANGED appvars

\* The handler on top returns; quit() ends with QApplication.quit().
HandlerReturns ==
  /\ dispatch.stack # <<>>
  /\ LET top == dispatch.stack[Len(dispatch.stack)] IN
     dispatch' = [dispatch EXCEPT
                    !.stack = SubSeq(@, 1, Len(@) - 1),
                    !.quit = @ \/ top = "quit"]
  /\ UNCHANGED appvars

\* SIGINT or SIGTERM is delivered to the process.
SignalArrives ==
  /\ ~dispatch.pending
  /\ dispatch' = [dispatch EXCEPT !.pending = TRUE]
  /\ UNCHANGED appvars

\* The interpreter runs the Python-level handler of a pending signal in the
\* main thread between two bytecodes, which is while a slot is executing
\* (none executes while the event loop waits): signal_handler calls quit().
signal_handler ==
  /\ dispatch.pending
  /\ dispatch.stack # <<>>
  /\ Len(dispatch.stack) < MaxDepth
  /\ dispatch' = [dispatch EXCEPT !.stack = Append(@, "quit"), !.pending = FALSE]
  /\ UNCHANGED appvars

NextDispatch ==
  \/ TimerFires
  \/ MenuTriggered
  \/ Dispatch
  \/ HandlerReturns
  \/ SignalArrives
  \/ signal_handler

SpecDispatch == Init /\ [][NextDispatch]_vars

\* C24 as stated: at most one tick or command (quit included) is executing
\* at any time, and one begins only when none is executing.
C24_HandlersSerialized ==
  /\ Len(dispatch.stack) <= 1
  /\ \A i \in 1..Len(dispatch.stack) : dispatch.stack[i] = "quit" => i = 1

\* ------------------------------------------------------- blocking calls

\* A blocking call made without a timeout.
NoTimeout == 0

\* The blocking calls of the camera manager, with the timeout (in seconds)
\* the code gives each: subprocess.run(..., timeout=), Popen.wait(timeout=),
\* time.sleep(1). `handler` marks a call made in the handler of the
\* previous call's TimeoutExpired.
Call(cmd, timeout) == [cmd |-> cmd, timeout |-> timeout, handler |-> FALSE]
DetectCalls == <<Call("v4l2-ctl --list-devices", 10)>>
EnsureCalls == <<Call("lsmod", NoTimeout), Call("modprobe v4l2loopback", 30)>>
ResetCalls == <<Call("modprobe -r v4l2loopback", 10), Call("modprobe v4l2loopback", 10)>>
StopCalls ==
  <<Call("wait after SIGTERM", 5),
    [Call("wait after SIGKILL", NoTimeout) EXCEPT !.handler = TRUE]>>
Sleep == <<Call("sleep", 1)>>

\* What is left of the calls when the first has ended without a timeout, or
\* was not made.
Rest(calls) ==
  LET t == Tail(calls) IN
  IF t # <<>> /\ Head(t).handler THEN Tail(t) ELSE t

\* The blocking calls each controller operation makes when every branch is
\* taken, in the order of the code.
BlockingCalls ==
  [detect |-> DetectCalls,
   ensure |-> EnsureCalls,
   reset |-> ResetCalls,
   start |-> DetectCalls \o EnsureCalls \o Sleep \o ResetCalls \o Sleep,
   stop |-> StopCalls,
   update_status |-> DetectCalls \o StopCalls \o ResetCalls]

\* The event loop, or a command-line command, calls an operation.
OperationBegins ==
  /\ dispatch.stack = <<>>
  /\ \E op \in DOMAIN BlockingCalls :
       dispatch' = [dispatch EXCEPT !.stack = <<op>>, !.calls = BlockingCalls[op]]
  /\ UNCHANGED appvars

\* The operation enters its next blocking call.
CallBlocks ==
  /\ dispatch.stack # <<>>
  /\ ~dispatch.blocked
  /\ dispatch.calls # <<>>
  /\ dispatch' = [dispatch EXCEPT !.blocked = TRUE]
  /\ UNCHANGED appvars

\* update_status does not take the branch that makes the next blocking
\* call: the device path is cached, or nothing is streaming at recovery.
\* (The other operations make their calls in sequence, or return.)
CallSkipped ==
  /\ dispatch.stack = <<"update_status">>
  /\ ~dispatch.blocked
  /\ dispatch.calls # <<>>
  /\ dispatch' = [dispatch EXCEPT !.calls = Rest(@)]
  /\ UNCHANGED appvars

\* The external command or the child process ends, and the call returns.
CommandCompletes ==
  /\ dispatch.blocked
  /\ dispatch' = [dispatch EXCEPT !.blocked = FALSE, !.calls = Rest(@)]
  /\ UNCHANGED appvars

\* The call's timeout expires: TimeoutExpired is raised in the operation
\* (time.sleep returns).
TimeoutExpires ==
  /\ dispatch.blocked
  /\ Head(dispatch.calls).timeout # NoTimeout
  /\ dispatch' = [dispatch EXCEPT !.blocked = FALSE, !.calls = Tail(@)]
  /\ UNCHANGED appvars

\* The operation returns, having made its calls or at a return before them.
OperationReturns ==
  /\ dispatch.stack # <<>>
  /\ ~dispatch.blocked
  /\ dispatch' = [dispatch EXCEPT !.stack = <<>>, !.calls = <<>>]
  /\ UNCHANGED appvars

NextWait ==
  \/ OperationBegins
  \/ CallBlocks
  \/ CallSkipped
  \/ CommandCompletes
  \/ TimeoutExpires
  \/ OperationReturns

\* The interpreter keeps executing an operation that is not blocked, and a
\* timeout that was set expires; nothing makes an external command end.
SpecWait ==
  /\ Init
  /\ [][NextWait]_vars
  /\ WF_vars(CallBlocks \/ OperationReturns)
  /\ WF_vars(TimeoutExpires)

\* C25 as stated: every controller operation that begins returns, whether
\* or not the external commands and processes it waits on ever end.
C25_EveryOperationTerminates ==
  (dispatch.stack # <<>>) ~> (dispatch.stack = <<>>)

\* ------------------------------------------------- command-line commands

\* How subprocess.run(['pkill' / 'pgrep', ...]) can end: the tool ran and
\* exited with some status, or it could not be run (OSError).
ToolOutcome == {"ran", "oserror"}

\* The transcoders `pkill -f` / `pgrep -f 'ffmpeg.*video10'` match: the
\* running ones when the configured virtual device is /dev/video10, the
\* device start_streaming puts on their command line.
Matched(s) ==
  IF get(config, <<"virtual_device">>, Scalar("/dev/video10")) = Scalar("/dev/video10")
  THEN {p \in Pids : s.procs[p] = "running"}
  ELSE {}

\* A transcoder is streaming to the configured virtual device.
StreamingToConfigured == \E p \in Pids : procs[p] = "running"

\* The CameraManager a command creates: no handle, no cached device.
Fresh(s) == [s EXCEPT !.ffmpeg_process = NoProcess, !.elgato_device = None]

\* main() with --test-camera, --start, --stop, --status: the exit status is
\* in `ret`.
main_test_camera(s) ==
  {Ret(r, IF r.ret # None THEN "0" ELSE "1") : r \in detect_elgato_camera(Fresh(s))}

main_start(s) ==
  {Ret(r, IF r.ret THEN "0" ELSE "1") : r \in start_streaming(Fresh(s))}

main_stop(s, oc) ==
  LET t == Do(s, "pkill") IN
  IF oc = "oserror" THEN Ret(t, "1")
  ELSE Ret([t EXCEPT !.procs = [p \in Pids |->
                       IF p \in Matched(s) THEN "reaped" ELSE s.procs[p]]], "0")

main_status(s, oc) ==
  LET t == Do(s, "pgrep") IN
  IF oc = "oserror" THEN Ret(t, "1")
  ELSE Ret(t, IF Matched(s) # {} THEN "0" ELSE "1")

\* The command's process exits with status r.ret; its manager is gone.
Exits(op, r) == Returns(op, Fresh(r), r.ret)

CliTestCamera == \E r \in main_test_camera(Cur) : Exits("--test-camera", r)
CliStart == SpawnRoom /\ \E r \in main_start(Cur) : Exits("--start", r)
CliStop == \E oc \in ToolOutcome : Exits("--stop", main_stop(Cur, oc))
CliStatus == \E oc \in ToolOutcome : Exits("--status", main_status(Cur, oc))

\* No tray application runs; the configuration file is absent or names
\* another virtual device.
InitCli ==
  /\ ffmpeg_process = NoProcess
  /\ elgato_device = None
  /\ consecutive_errors = 0
  /\ last_status = <<>>
  /\ procs = [p \in Pids |-> "unborn"]
  /\ listing \in Listings
  /\ moduleLoaded \in BOOLEAN
  /\ vdevExists \in {FALSE, moduleLoaded}
  /\ lastCall = NoCall
  /\ polls = <<>>
  /\ config_file \in {FileAbsent,
                      FileOf(Put(EmptyDict, <<"virtual_device">>, Scalar("/dev/video15")))}
  /\ ConfigConstructed
  /\ dispatch = Idle
  /\ status_dialog = NoDialog
  /\ startup = Started
  /\ service = NoService

NextCli ==
  \/ CliTestCamera
  \/ CliStart
  \/ CliStop
  \/ CliStatus
  \/ EnvProcessExits
  \/ EnvCamera
  \/ EnvModuleUnloaded
  \/ EnvModuleLoaded

SpecCli == InitCli /\ [][NextCli]_vars

\* C26 as stated, where the model can tell success: --test-camera exits 0
\* only if the device is in the enumeration it ran, --start exits 0 iff it
\* left a transcoder running that it spawned, --stop exits 0 only if no
\* transcoder streams to the configured virtual device afterwards, --status
\* exits 0 only if one was streaming to it.
C26_ExitStatusTellsSuccess ==
  [][/\ lastCall'.op = "--test-camera" =>
          (lastCall'.ret = "0" => ScanLines(listing, 1) # None)
     /\ lastCall'.op = "--start" =>
          (lastCall'.ret = "0" <=>
             \E p \in Pids : procs[p] = "unborn" /\ procs'[p] = "running")
     /\ lastCall'.op = "--stop" =>
          (lastCall'.ret = "0" => ~StreamingToConfigured')
     /\ lastCall'.op = "--status" =>
          (lastCall'.ret = "0" => StreamingToConfigured)]_vars

\* ------------------------------------------- module and handle contracts

\* C27: reset_virtual_device() issues the unload first and once; when the
\* unload fails it returns failure, issues no load and leaves the module as
\* it was; after a successful unload it issues exactly one load and returns
\* success iff that load succeeded (module loaded, device file present).
C27_ResetUnloadsThenLoadsOnce ==
  [][lastCall'.op = "reset" =>
       LET tr == lastCall'.trace IN
       /\ tr[1] = "modprobe -r"
       /\ Count(tr, "modprobe -r") = 1
       /\ Count(tr, "modprobe") <= 1
       /\ Count(tr, "modprobe") = 0 =>
            /\ lastCall'.ret = "False"
            /\ moduleLoaded' = moduleLoaded /\ vdevExists' = vdevExists
       /\ Count(tr, "modprobe") = 1 =>
            /\ tr[2] = "modprobe"
            /\ lastCall'.ret = "True" <=> (moduleLoaded' /\ vdevExists')
            /\ lastCall'.ret = "False" <=> (~moduleLoaded' /\ ~vdevExists')]_vars

\* A reset whose unload failed on a loaded module: no load was issued.
C27_Witness ==
  /\ lastCall.op = "reset"
  /\ lastCall.ret = "False"
  /\ lastCall.trace = <<"modprobe -r", "log: reset failed">>
  /\ moduleLoaded

\* C28: is_streaming() returns true and keeps the handle while the owned
\* process runs, drops the handle and returns false when it has exited, and
\* returns false changing nothing without a handle; it only polls: it
\* neither spawns nor signals nor waits.
C28_IsStreamingPollsOnly ==
  [][lastCall'.op = "is_streaming" =>
       /\ \A i \in 1..Len(lastCall'.trace) : lastCall'.trace[i] = "poll"
       /\ \A p \in Pids : (procs'[p] = "running") = (procs[p] = "running")
       /\ \A p \in Pids : (procs'[p] = "unborn") = (procs[p] = "unborn")
       /\ IF ffmpeg_process = NoProcess
          THEN /\ lastCall'.ret = "False"
               /\ lastCall'.trace = <<>>
               /\ ffmpeg_process' = NoProcess
               /\ procs' = procs
          ELSE IF procs[ffmpeg_process] = "running"
          THEN /\ lastCall'.ret = "True"
               /\ ffmpeg_process' = ffmpeg_process
               /\ procs' = procs
          ELSE /\ lastCall'.ret = "False"
               /\ ffmpeg_process' = NoProcess]_vars

\* is_streaming() has just dropped the handle of a child that had exited.
C28_Witness ==
  /\ lastCall.op = "is_streaming"
  /\ lastCall.ret = "False"
  /\ lastCall.trace # <<>>
  /\ ffmpeg_process = NoProcess

\* C29: ensure_v4l2loopback_loaded() returns success without a load command
\* when the module is listed as loaded; otherwise it issues exactly one load
\* command and returns success iff that command succeeded.
C29_EnsureLoadsAtMostOnce ==
  [][lastCall'.op = "ensure" =>
       IF moduleLoaded
       THEN /\ lastCall'.ret = "True"
            /\ lastCall'.trace = <<"lsmod">>
            /\ moduleLoaded' /\ vdevExists' = vdevExists
       ELSE /\ lastCall'.trace = <<"lsmod", "modprobe">>
            /\ lastCall'.ret = "True" <=> moduleLoaded'
            /\ lastCall'.ret = "False" <=> ~moduleLoaded']_vars

\* The one load command failed: failure, and nothing after it.
C29_Witness ==
  /\ lastCall.op = "ensure"
  /\ lastCall.ret = "False"
  /\ lastCall.trace = <<"lsmod", "modprobe">>
  /\ ~moduleLoaded

\* C30: a timeout of the enumeration, load or unload command leaves the
\* same return value, the same controller state and the same commands issued
\* as its non-zero exit: detection gives None, ensure gives failure, a
\* timed-out unload gives failure with no load issued.
C30_TimeoutIsFailure ==
  /\ DetectWith(Cur, "timeout") = DetectWith(Cur, "nonzero")
  /\ DetectWith(Cur, "timeout").ret = None
  /\ EnsureWith(Cur, "timeout") = EnsureWith(Cur, "nonzero")
  /\ ~moduleLoaded => ~EnsureWith(Cur, "timeout").ret
  /\ \A rel \in Outcome :
       /\ ResetWith(Cur, "timeout", rel) = ResetWith(Cur, "nonzero", rel)
       /\ ~ResetWith(Cur, "timeout", rel).ret
       /\ Count(ResetWith(Cur, "timeout", rel).trace, "modprobe") = 0
  /\ ResetWith(Cur, "ok", "timeout") = ResetWith(Cur, "ok", "nonzero")
  /\ ~ResetWith(Cur, "ok", "timeout").ret

\* Detection answered None although the camera is enumerated: the command
\* failed or timed out.
C30_Witness ==
  /\ lastCall.op = "detect"
  /\ lastCall.ret = None
  /\ ScanLines(listing, 1) # None

\* ---------------------------------------- the configuration manager's claims

\* Some component of the split key is missing from cfg, or lies below a
\* value that is not a mapping.
Unresolvable(cfg, keys) ==
  \E i \in 1..Len(keys) : SubSeq(keys, 1, i) \notin DOMAIN cfg

\* C18 as stated: set(k, v) returns normally and a get(k) after it gives v,
\* for every dotted key k and value v.
C18_SetThenGetReturnsValue ==
  [][configCall'.op = "set" =>
       /\ configCall'.raised = None
       /\ get(config', configCall'.key, Scalar(None)) = configCall'.arg]_vars

\* C19: get(k, d) returns d (None when no default is given) whenever a
\* component of k is missing or lies below a non-mapping value; it raises
\* nothing and changes neither the configuration, the defaults nor the file.
C19_GetFallsBackToDefault ==
  [][configCall'.op = "get" =>
       /\ configCall'.raised = None
       /\ Unresolvable(config, Split(configCall'.key))
            => configCall'.ret = configCall'.arg
       /\ config' = config
       /\ default_config' = default_config
       /\ config_file' = config_file]_vars

\* get('virtual_device.nr', 'fallback') below a scalar virtual_device.
C19_Witness ==
  /\ configCall.op = "get"
  /\ configCall.key = <<"virtual_device", ".", "nr">>
  /\ config[<<"virtual_device">>] # DictMark
  /\ configCall.arg = Scalar("fallback")
  /\ configCall.ret = Scalar("fallback")

\* The file holds a JSON object whose key paths are all key paths of the
\* compiled-in defaults, mappings where the defaults have mappings.
PartialOfDefaults(file) ==
  /\ file.state = "json"
  /\ IsDict(file.tree)
  /\ \A q \in DOMAIN file.tree :
       /\ q \in DOMAIN DefaultConfig
       /\ file.tree[q] = DictMark <=> DefaultConfig[q] = DictMark

\* C20: a manager constructed in front of a file holding a subset of the
\* default keys has the file's value under every key of the file and the
\* compiled-in default under every other default key, siblings of an
\* overridden nested key included, and no other key.
C20_PartialFileKeepsOtherDefaults ==
  [][(configCall'.op = "new" /\ PartialOfDefaults(config_file)) =>
       /\ DOMAIN config' = DOMAIN DefaultConfig
       /\ \A q \in DOMAIN DefaultConfig :
            DefaultConfig[q] # DictMark =>
              GetFrom(config', q, Scalar("fallback")) =
                Scalar(IF q \in DOMAIN config_file.tree THEN config_file.tree[q]
                       ELSE DefaultConfig[q])]_vars

\* Loaded from {"ffmpeg_params": {"framerate": 60}}: framerate overridden,
\* video_size still the default.
C20_Witness ==
  /\ configCall.op = "new"
  /\ PartialOfDefaults(config_file)
  /\ <<"ffmpeg_params", "framerate">> \in DOMAIN config_file.tree
  /\ config_file.tree[<<"ffmpeg_params", "framerate">>] = "60"
  /\ <<"ffmpeg_params", "video_size">> \notin DOMAIN config_file.tree
  /\ config[<<"ffmpeg_params", "framerate">>] = "60"
  /\ config[<<"ffmpeg_params", "video_size">>] = "1280x720"

\* C21 as stated: a manager constructed in front of any file that parses as
\* a JSON object still has every key path of the compiled-in defaults.
C21_LoadKeepsEveryDefaultKeyPath ==
  [][(configCall'.op = "new" /\ config_file.state = "json" /\ IsDict(config_file.tree))
     => \A q \in DOMAIN DefaultConfig :
          /\ q \in DOMAIN config'
          /\ GetFrom(config', q, Scalar("fallback")) # Scalar("fallback")]_vars

\* C22 as stated, for the key set last: when set(k, v) has returned normally
\* and its save has written the file, a manager constructed next returns v
\* for k.
C22_SetPersistsAcrossManagers ==
  [][(/\ configCall.op = "set"
      /\ configCall.raised = None
      /\ config_file = FileOf(config)
      /\ configCall'.op = "new")
     => get(config', configCall.key, Scalar(None)) = configCall.arg]_vars

\* C23: constructing a manager in front of a file that does not parse raises
\* nothing, gives exactly the compiled-in defaults and leaves the file as it
\* is; such a file is changed by nothing but a set call.
C23_MalformedFileGivesDefaults ==
  [][/\ (configCall'.op = "new" /\ config_file.state = "malformed") =>
          /\ configCall'.raised = None
          /\ config' = DefaultConfig
          /\ config_file' = config_file
     /\ (config_file.state = "malformed" /\ config_file' # config_file) =>
          /\ configCall'.op = "set"
          /\ config_file' = FileOf(config')]_vars

\* A manager constructed in front of a file a broken save left behind.
C23_Witness ==
  /\ configCall.op = "new"
  /\ config_file = FileMalformed
  /\ config = DefaultConfig

\* ------------------------------------------------- the status monitor

\* The operations that end with (or are) an update_status() call.
PollingOps == {"update_status", "toggle", "tray_reset"}

\* The status lines the call that just returned wrote.
StatusLines(call) == Count(call.trace, "log status")

\* C31: an update_status() call writes a status line iff the pair
\* (classification, message) it computed differs from the pair of the poll
\* before it, and the first poll always writes one; it writes at most one
\* line, it remembers the pair it computed, and no other operation changes
\* the remembered pair, so a run of polls with the same pair writes one line.
C31_StatusLoggedOnChangeOnly ==
  [][/\ lastCall'.op \in PollingOps =>
          /\ StatusLines(lastCall') = (IF last_status' # last_status THEN 1 ELSE 0)
          /\ last_status' # <<>>
          /\ last_status'[1] = polls'[Len(polls')].status
          /\ last_status = <<>> => StatusLines(lastCall') = 1
     /\ lastCall'.op = "update_status" =>
          last_status' \in {g.ret : g \in get_status(Cur)}
     /\ lastCall'.op \notin PollingOps =>
          /\ last_status' = last_status
          /\ StatusLines(lastCall') = 0]_vars

\* Two polls in a row classified degraded with the same message, the second
\* of them silent, after a poll that was classified otherwise.
C31_Witness ==
  /\ lastCall.op = "update_status"
  /\ StatusLines(lastCall) = 0
  /\ Len(polls) = MaxConsecutiveErrors
  /\ polls[1].status # "error"
  /\ polls[2].status = "error"
  /\ polls[3].status = "error"
  /\ last_status = <<"error", "camera not detected">>

\* C32: between operations, hence after every completed update_status()
\* call, the consecutive-failure counter is in 0..threshold-1: a poll that
\* brings it to the threshold recovers and zeroes it before it returns.
C32_CounterBelowThreshold ==
  /\ consecutive_errors \in 0..(MaxConsecutiveErrors - 1)
  /\ (lastCall.op \in PollingOps /\ LastPoll.before = MaxConsecutiveErrors - 1)
     => consecutive_errors = 0

\* A poll that found the counter one below the threshold, was classified
\* degraded and left it at zero after a recovery whose reset failed.
C32_Witness ==
  /\ lastCall.op = "update_status"
  /\ LastPoll.before = MaxConsecutiveErrors - 1
  /\ LastPoll.status = "error"
  /\ LastPoll.recoveries = 1
  /\ ~LastPoll.reset_ok
  /\ consecutive_errors = 0
  /\ moduleLoaded

\* The operations that may spawn a transcoder: start_streaming and the tray
\* toggle that calls it.
StartingOps == {"start", "toggle"}

\* C33: an update_status() call, with the recovery it may trigger, spawns no
\* transcoder: it runs no Popen, no process becomes running, and the handle
\* it leaves is the one it found or none. No step other than a start or a
\* toggle makes an owned transcoder run, so after the transcoder has died
\* streaming resumes only by one of those two commands.
C33_PollNeverSpawns ==
  [][/\ lastCall'.op = "update_status" =>
          /\ "Popen" \notin Events(lastCall'.trace)
          /\ "Popen failed" \notin Events(lastCall'.trace)
          /\ procs' \in {procs, [procs EXCEPT ![ffmpeg_process] = "reaped"]}
          /\ ffmpeg_process' \in {ffmpeg_process, NoProcess}
     /\ lastCall'.op \notin StartingOps =>
          /\ Spawned(Cur)' = Spawned(Cur)
          /\ OwnedProcessRunning' => OwnedProcessRunning]_vars

\* A poll that found the transcoder dead, dropped the handle, was the third
\* degraded one and recovered with a reset that succeeded: nothing streams.
C33_Witness ==
  /\ lastCall.op = "update_status"
  /\ "poll" \in Events(lastCall.trace)
  /\ LastPoll.recoveries = 1
  /\ LastPoll.reset_ok
  /\ ffmpeg_process = NoProcess
  /\ \E p \in Pids : procs[p] = "reaped"
  /\ ~OwnedProcessRunning

\* ------------------------------------------------------ the status dialog

\* The action buttons update_action_buttons can put into the dialog.
ResetButton == "Reset Virtual Device"
StopButton == "Stop Streaming"
StartButton == "Start Streaming"

\* get_system_diagnostics, as far as refresh_status and update_action_buttons
\* read its result: ret.hardware says that an item of 'hardware' carries a
\* check mark (lsusb listed an Elgato device, `usb`, or the camera was
\* detected), ret.virtual_device that 'Virtual device exists' is reported.
get_system_diagnostics(s, usb) ==
  {LET v == Do(Do(d, "exists"), "lsmod")
       i == is_streaming(v)
   IN Ret(i, [hardware |-> usb \/ d.ret # None, virtual_device |-> s.vdevExists])
   : d \in detect_elgato_camera(Do(s, "lsusb"))}

\* update_action_buttons: the buttons are rebuilt from the diagnostics and
\* from is_streaming() at this moment.
update_action_buttons(s, diagnostics) ==
  LET a == is_streaming(s) IN
  [a EXCEPT !.action_buttons =
     (IF ~diagnostics.virtual_device THEN {ResetButton} ELSE {})
     \cup (IF a.ret THEN {StopButton}
           ELSE IF diagnostics.hardware /\ diagnostics.virtual_device
                THEN {StartButton} ELSE {})]

\* StatusDialog.refresh_status.
refresh_status(s) ==
  UNION {{LET o == IF g.ret.hardware THEN is_streaming(g) ELSE g IN
          Ret(update_action_buttons(o, g.ret), None)
          : g \in get_system_diagnostics(s, usb)}
         : usb \in BOOLEAN}

\* SystemTray.show_status_dialog: the dialog is constructed on first use (its
\* constructor refreshes), then refreshed and shown.
show_status_dialog(s) ==
  IF status_dialog.created THEN refresh_status(s)
  ELSE UNION {refresh_status(c) : c \in refresh_status(s)}

\* StatusDialog.reset_virtual_device, the slot of the dialog's reset button.
dialog_reset_virtual_device(s) ==
  UNION {IF r.ret THEN refresh_status(r) ELSE {Ret(r, None)}
         : r \in reset_virtual_device(s)}

\* StatusDialog.start_streaming and stop_streaming, the other two slots.
dialog_start_streaming(s) == UNION {refresh_status(r) : r \in start_streaming(s)}
dialog_stop_streaming(s) == UNION {refresh_status(r) : r \in stop_streaming(s)}

\* A slot of the tray or of the dialog returned, leaving the state r and the
\* dialog created.
DialogReturns(op, r) ==
  /\ Leaves(op, r, None)
  /\ status_dialog' = [created |-> TRUE, action_buttons |-> r.action_buttons]
  /\ UNCHANGED <<cvars, dispatch>>

ShowStatusDialog ==
  \E r \in show_status_dialog(Cur) : DialogReturns("show_status_dialog", r)

\* The dialog's own "Refresh Status" button.
DialogRefresh ==
  /\ status_dialog.created
  /\ \E r \in refresh_status(Cur) : DialogReturns("refresh_status", r)

\* A click on an action button calls its slot; a button exists from the
\* refresh that made it to the next refresh of the dialog.
DialogReset ==
  /\ ResetButton \in status_dialog.action_buttons
  /\ \E r \in dialog_reset_virtual_device(Cur) : DialogReturns("dialog_reset", r)

DialogStart ==
  /\ StartButton \in status_dialog.action_buttons
  /\ SpawnRoom
  /\ \E r \in dialog_start_streaming(Cur) : DialogReturns("dialog_start", r)

DialogStop ==
  /\ StopButton \in status_dialog.action_buttons
  /\ \E r \in dialog_stop_streaming(Cur) : DialogReturns("dialog_stop", r)

\* The tray with its status dialog: the monitor's tick, the tray commands,
\* the dialog's buttons, and the environment.
NextDialog ==
  \/ Tick
  \/ Toggle
  \/ TrayReset
  \/ ShowStatusDialog
  \/ DialogRefresh
  \/ DialogReset
  \/ DialogStart
  \/ DialogStop
  \/ EnvProcessExits
  \/ EnvCamera
  \/ EnvModuleUnloaded
  \/ EnvModuleLoaded

SpecDialog == Init /\ [][NextDialog]_vars

\* C34 as stated: no tick or command of the tray or of its status dialog
\* (the retry inside start_streaming, the monitor's recovery, the tray's
\* reset command, the dialog's reset button) issues the driver unload while
\* a transcoder the supervisor owns is running.
C34_NoUnloadWhileTranscoderRuns == ~lastCall.liveUnload

\* The paths that look at is_streaming() first, or reset only after their
\* child was seen dead, do keep to it (the dialog's button does not).
UnloadGuardedOutsideDialog == lastCall.liveUnload => lastCall.op = "dialog_reset"

\* ------------------------------------- shutdown during start_streaming

\* VirtualCamApp.quit, up to QApplication.quit(): the stream the handle
\* points at, if is_streaming() says it runs, is stopped.
quit(s) ==
  LET a == is_streaming(Do(s, "quit")) IN
  IF a.ret THEN stop_streaming(a) ELSE {a}

\* The statements of start_streaming between which the interpreter can run
\* a signal handler: from "detect" (line 485) to the second "check" (line
\* 558); "done" is the return statement reached, "returned" the call over.
\* The Popen call (fork and exec done, object not yet stored) and the store
\* into self.ffmpeg_process are two statements, as are the sleep and the poll.
StartPcs ==
  {"detect", "ensure", "verify", "popen", "assign", "sleep", "check",
   "reset", "popen2", "assign2", "sleep2", "check2", "done"}

\* A step of the start_streaming() call in execution: the controller and the
\* OS become r, the call moves to pc, holding the unstored Popen object child.
StartStep(r, pc, child) ==
  /\ Leaves("start_streaming", r, None)
  /\ dispatch' = [dispatch EXCEPT !.pc = pc, !.child = child]
  /\ UNCHANGED <<cvars, status_dialog>>

\* start_streaming() is called (lines 480-482), nothing else executing.
StartBegins ==
  /\ dispatch.pc = "idle"
  /\ dispatch.stack = <<>>
  /\ ~dispatch.quit
  /\ LET a == is_streaming(Cur) IN
     /\ Leaves("start_streaming", a, None)
     /\ dispatch' = [dispatch EXCEPT !.stack = <<"start_streaming">>,
                                     !.pc = IF a.ret THEN "done" ELSE "detect"]
  /\ UNCHANGED <<cvars, status_dialog>>

\* Lines 485-498.
StartDetects ==
  /\ dispatch.pc = "detect"
  /\ \E d \in detect_elgato_camera(Cur) :
       StartStep([d EXCEPT !.elgato_device = d.ret],
                 IF d.ret = None THEN "done" ELSE "ensure", NoProcess)

StartEnsures ==
  /\ dispatch.pc = "ensure"
  /\ \E e \in ensure_v4l2loopback_loaded(Cur) :
       StartStep(e, IF e.ret THEN "verify" ELSE "done", NoProcess)

StartVerifies ==
  /\ dispatch.pc = "verify"
  /\ LET v == verify_virtual_device(Cur) IN
     StartStep(v, IF v.ret THEN "popen" ELSE "done", NoProcess)

\* subprocess.Popen(...) at lines 524 and 548: the child is forked, or the
\* call (or the open() before it) raises and line 567 returns False.
StartSpawns ==
  /\ dispatch.pc \in {"popen", "popen2"}
  /\ Spawned(Cur) < MaxSpawns
  /\ \E oc \in SpawnOutcome :
       LET pid == Spawned(Cur) + 1 IN
       IF oc = "oserror"
       THEN StartStep(Do(Cur, "Popen failed"), "done", NoProcess)
       ELSE StartStep([Do(Cur, "Popen") EXCEPT
                         !.procs[pid] = IF oc = "alive" THEN "running" ELSE "exited"],
                      IF dispatch.pc = "popen" THEN "assign" ELSE "assign2", pid)

\* self.ffmpeg_process = <the Popen object>.
StartStores ==
  /\ dispatch.pc \in {"assign", "assign2"}
  /\ StartStep([Cur EXCEPT !.ffmpeg_process = dispatch.child],
               IF dispatch.pc = "assign" THEN "sleep" ELSE "sleep2", NoProcess)

\* time.sleep(1), lines 534 and 555.
StartSleeps ==
  /\ dispatch.pc \in {"sleep", "sleep2"}
  /\ StartStep(Do(Cur, "sleep"),
               IF dispatch.pc = "sleep" THEN "check" ELSE "check2", NoProcess)

\* self.ffmpeg_process.poll() at lines 536 and 558; on a handle that a
\* nested quit() has set to None it raises AttributeError, caught at 566.
StartChecks ==
  /\ dispatch.pc \in {"check", "check2"}
  /\ IF ffmpeg_process = NoProcess
     THEN StartStep(Ret(Cur, FALSE), "done", NoProcess)
     ELSE LET c == Poll(Cur) IN
          IF c.ret = None THEN StartStep(Ret(c, TRUE), "done", NoProcess)
          ELSE StartStep(Ret(c, FALSE),
                         IF dispatch.pc = "check" THEN "reset" ELSE "done", NoProcess)

\* Line 543.
StartResets ==
  /\ dispatch.pc = "reset"
  /\ \E r \in reset_virtual_device(Cur) :
       StartStep(r, IF r.ret THEN "popen2" ELSE "done", NoProcess)

\* The return statement: the call is over.
StartReturns ==
  /\ dispatch.pc = "done"
  /\ dispatch' = [dispatch EXCEPT !.pc = "returned", !.stack = <<>>]
  /\ UNCHANGED appvars

\* SIGINT or SIGTERM during the call: signal_handler runs quit() between two
\* statements of start_streaming, to completion, and the call then resumes.
QuitDuringStart ==
  /\ dispatch.pc \in StartPcs
  /\ ~dispatch.quit
  /\ \E r \in quit(Cur) :
       /\ Leaves("quit", r, None)
       /\ dispatch' = [dispatch EXCEPT !.quit = TRUE]
  /\ UNCHANGED <<cvars, status_dialog>>

\* The child can exit at any time, the camera be unplugged.
NextQuit ==
  \/ StartBegins
  \/ StartDetects
  \/ StartEnsures
  \/ StartVerifies
  \/ StartSpawns
  \/ StartStores
  \/ StartSleeps
  \/ StartChecks
  \/ StartResets
  \/ StartReturns
  \/ QuitDuringStart
  \/ EnvProcessExits
  \/ EnvCamera

SpecQuit == Init /\ [][NextQuit]_vars

\* C35 as stated: when quit() ran during a start_streaming() call and both
\* are over, no transcoder this controller spawned is running.
C35_NoTranscoderSurvivesQuit ==
  (dispatch.pc = "returned" /\ dispatch.quit) => ~OwnedProcessRunning

\* ------------------------------------------- resets per user command

\* C36 as stated: a tray 'Reset Virtual Device' command and a toggle command
\* each issue the driver unload at most once, whatever the counter was when
\* the command was issued.
C36_OneResetPerCommand ==
  lastCall.op \in {"toggle", "tray_reset"}
  => Count(lastCall.trace, "modprobe -r") <= 1

\* The same, for commands issued with the counter more than one below the
\* threshold: only the refresh that reaches the threshold resets again.
OneResetPerCommandBelowThreshold ==
  [][(lastCall'.op \in {"toggle", "tray_reset"}
      /\ consecutive_errors < MaxConsecutiveErrors - 1)
     => Count(lastCall'.trace, "modprobe -r") <= 1]_vars

\* ----------------------------------------------- the recovery's stop step

\* What a call did from its first attempt_recovery() on.
SinceRecovery(trace) == SubSeq(trace, First(trace, "attempt_recovery"), Len(trace))

\* C37: an update_status() call (a timer poll or the refresh ending a
\* command) that invoked attempt_recovery() found no handle there: from the
\* recovery on it polls no child, asks for no process group and sends no
\* signal, and it ends holding no handle. The poll was classified degraded.
C37_RecoveryFindsNoHandle ==
  (lastCall.op \in PollingOps /\ "attempt_recovery" \in Events(lastCall.trace))
  => /\ Events(SinceRecovery(lastCall.trace))
          \cap {"poll", "getpgid", "SIGTERM", "wait5", "SIGKILL", "wait"} = {}
     /\ ffmpeg_process = NoProcess
     /\ LastPoll.status = "error"
     /\ LastPoll.recoveries = 1

\* A toggle whose start left the handle of its dead child: the refresh that
\* ended it polled the child, dropped the handle, and then recovered.
C37_Witness ==
  /\ lastCall.op = "toggle"
  /\ "Popen" \in Events(lastCall.trace)
  /\ "attempt_recovery" \in Events(lastCall.trace)
  /\ lastCall.trace[First(lastCall.trace, "attempt_recovery") - 2] = "poll"
  /\ ffmpeg_process = NoProcess

\* ------------------------------------------------- application startup

\* main() in tray mode is about to construct VirtualCamApp (line 1071); the
\* per-user configuration directory exists or not, and with it the file.
InitStartup ==
  /\ ffmpeg_process = NoProcess
  /\ elgato_device = None
  /\ consecutive_errors = 0
  /\ last_status = <<>>
  /\ procs = [p \in Pids |-> "unborn"]
  /\ listing \in Listings
  /\ moduleLoaded \in BOOLEAN
  /\ vdevExists \in {FALSE, moduleLoaded}
  /\ lastCall = NoCall
  /\ polls = <<>>
  /\ \E dir \in BOOLEAN :
       /\ startup = [pc |-> "setup_logging", config_dir |-> dir, log |-> FALSE]
       /\ config_file \in IF dir THEN Files ELSE {FileAbsent}
  /\ config = DefaultConfig
  /\ default_config = DefaultConfig
  /\ shared = {}
  /\ configCall = NoConfigCall
  /\ dispatch = Idle
  /\ status_dialog = NoDialog
  /\ service = NoService

\* Everything VirtualCamApp.__init__ leaves alone.
initvars == <<ffmpeg_process, elgato_device, consecutive_errors, last_status,
              procs, listing, moduleLoaded, vdevExists, lastCall, polls,
              dispatch, status_dialog, service>>

\* self.setup_logging() (line 885): logging.FileHandler opens virtualcam.log
\* in the configuration directory for appending (line 924); with the
\* directory absent open() raises FileNotFoundError, nothing catches it, and
\* VirtualCamApp() raises out of main.
setup_logging ==
  /\ startup.pc = "setup_logging"
  /\ startup' = IF startup.config_dir
                THEN [startup EXCEPT !.pc = "ConfigManager", !.log = TRUE]
                ELSE [startup EXCEPT !.pc = "raised"]
  /\ UNCHANGED <<cvars, initvars>>

\* self.config = ConfigManager() (line 890): mkdir(parents=True,
\* exist_ok=True) at line 43, then the defaults and load_config.
NewConfigManager ==
  /\ startup.pc = "ConfigManager"
  /\ startup' = [startup EXCEPT !.pc = "CameraManager", !.config_dir = TRUE]
  /\ LET m == load_config(DefaultConfig, config_file) IN
     /\ config' = m.config
     /\ default_config' = m.default_config
     /\ shared' = m.shared
     /\ configCall' = [NoConfigCall EXCEPT !.op = "new"]
  /\ UNCHANGED <<config_file, initvars>>

\* self.camera = CameraManager(self.config) (line 894) and the signal
\* handlers (lines 902-903): __init__ is over.
NewCameraManager ==
  /\ startup.pc = "CameraManager"
  /\ startup' = [startup EXCEPT !.pc = "initialized"]
  /\ UNCHANGED <<cvars, initvars>>

\* create_system_tray(): SystemTray.__init__ ends with the first
\* update_status(); the timer then polls.
FirstTicks ==
  /\ startup.pc = "initialized"
  /\ Tick

NextStartup ==
  \/ setup_logging
  \/ NewConfigManager
  \/ NewCameraManager
  \/ FirstTicks

SpecStartup == InitStartup /\ [][NextStartup]_vars

\* C38 as stated: startup with the configuration directory absent (and
\* creatable) completes, the directory being created before the log file in
\* it is opened: __init__ does not raise, and the log is open only with the
\* directory in place.
C38_StartupCreatesDirectoryFirst ==
  /\ startup.pc # "raised"
  /\ startup.log => startup.config_dir

\* --------------------------------------------- the compiled-in defaults

\* C39 as stated: whatever was loaded and whatever set calls were made,
\* default_config equals the values it was constructed with.
C39_DefaultsNeverChange == default_config = DefaultConfig

\* The top level of default_config does stay as constructed: only the
\* mappings it shares with config change.
DefaultsTopLevelKept ==
  /\ TopKeys(default_config) = TopKeys(DefaultConfig)
  /\ \A k \in TopKeys(DefaultConfig) \ DictKeys(DefaultConfig) :
       default_config[<<k>>] = DefaultConfig[<<k>>]

\* ----------------------------------- the service-based tray controller

\* States of elgato-virtualcam.service that `systemctl is-active` tells
\* apart: it prints the state and exits 0 for active and reloading, 3 for
\* the others.
Units == {"active", "reloading", "inactive", "failed"}

\* The CompletedProcess of `systemctl --user is-active` on a unit in state
\* u: the command answers, fails on its own (no user bus: exit 1, nothing
\* printed), or does not end within 5 s, which raises TimeoutExpired.
IsActive(u, oc) ==
  IF oc = "timeout" THEN [raised |-> TRUE, returncode |-> 0, stdout |-> ""]
  ELSE IF oc = "nonzero" THEN [raised |-> FALSE, returncode |-> 1, stdout |-> ""]
  ELSE [raised |-> FALSE,
        returncode |-> IF u \in {"active", "reloading"} THEN 0 ELSE 3,
        stdout |-> u]

\* Lines 99-108 of get_service_status, on the result of the query.
StatusOf(result) ==
  IF result.raised THEN "disconnected"
  ELSE IF result.returncode = 0 /\ result.stdout = "active" THEN "on"
  ELSE IF result.returncode = 3 THEN "off"
  ELSE "unsure"

\* The tray controller and the unit as one record, like Cur.
CurService ==
  [unit |-> service.unit, shown |-> service.shown, slot |-> service.slot,
   ret |-> None, trace |-> <<>>]

get_service_status(s) ==
  {LET status == StatusOf(IsActive(s.unit, oc)) IN
   Ret(Do(Do(s, "is-active"), status), status) : oc \in Outcome}

\* refresh_status of the tray controller: icon and tooltip show the status,
\* and create_menu connects the toggle entry to stop_service or start_service.
tray_refresh_status(s) ==
  {Ret([g EXCEPT !.shown = g.ret,
                 !.slot = IF g.ret = "on" THEN "stop_service" ELSE "start_service"],
       None)
   : g \in get_service_status(s)}

\* The notification each branch of start_service and stop_service shows.
Notification(oc) ==
  IF oc = "ok" THEN "notify: successfully"
  ELSE IF oc = "nonzero" THEN "notify: Failed" ELSE "notify: Timeout"

\* The unit after `systemctl start` ended in oc: exit status 0 means it was
\* started; one that could not be started is failed or as it was; at a
\* timeout (10 s) it may or may not have been started yet.
UnitAfterStart(u, oc) ==
  IF oc = "ok" THEN {"active"}
  ELSE IF oc = "nonzero" THEN {"failed", u} ELSE {"active", u}

\* The unit after `systemctl stop` ended in oc.
UnitAfterStop(u, oc) ==
  IF oc = "ok" THEN {"inactive"}
  ELSE IF oc = "nonzero" THEN {u} ELSE {"inactive", u}

\* start_service and stop_service: the command, the notification of its
\* branch, and then refresh_status().
start_service(s) ==
  UNION {UNION {tray_refresh_status(Do([Do(s, "systemctl start") EXCEPT !.unit = u],
                                       Notification(oc)))
                : u \in UnitAfterStart(s.unit, oc)}
         : oc \in Outcome}

stop_service(s) ==
  UNION {UNION {tray_refresh_status(Do([Do(s, "systemctl stop") EXCEPT !.unit = u],
                                       Notification(oc)))
                : u \in UnitAfterStop(s.unit, oc)}
         : oc \in Outcome}

\* toggle_service stopping whenever the status is not 'off'.
toggle_service_stops_unless_off(s) ==
  UNION {IF g.ret # "off" THEN stop_service(g) ELSE start_service(g)
         : g \in get_service_status(s)}

toggle_service(s) ==
  UNION {IF g.ret = "on" THEN stop_service(g) ELSE start_service(g)
         : g \in get_service_status(s)}

\* A slot of the tray controller returned, leaving it and the unit as r.
ServiceReturns(op, r) ==
  /\ service' = [unit |-> r.unit, shown |-> r.shown, slot |-> r.slot]
  /\ lastCall' = [op |-> op, ret |-> None, trace |-> r.trace, liveUnload |-> FALSE]
  /\ UNCHANGED <<ffmpeg_process, elgato_device, consecutive_errors, last_status,
                 procs, listing, moduleLoaded, vdevExists, polls, cvars,
                 dispatch, status_dialog, startup>>

\* VirtualCamTray.__init__ has run, with its initial refresh_status(), in
\* front of the unit in any state.
InitService ==
  /\ ffmpeg_process = NoProcess
  /\ elgato_device = None
  /\ consecutive_errors = 0
  /\ last_status = <<>>
  /\ procs = [p \in Pids |-> "unborn"]
  /\ listing = LsPresent
  /\ moduleLoaded = FALSE
  /\ vdevExists = FALSE
  /\ lastCall = NoCall
  /\ polls = <<>>
  /\ config_file = FileAbsent
  /\ ConfigConstructed
  /\ dispatch = Idle
  /\ status_dialog = NoDialog
  /\ startup = Started
  /\ \E u \in Units :
       \E r \in tray_refresh_status([unit |-> u, shown |-> None, slot |-> None,
                                      ret |-> None, trace |-> <<>>]) :
         service = [unit |-> r.unit, shown |-> r.shown, slot |-> r.slot]

\* Left click on the tray icon (on_tray_activated).
TrayActivated ==
  \E r \in toggle_service(CurService) : ServiceReturns("toggle_service", r)

\* The toggle entry of the menu: the slot the last refresh connected.
ToggleActionTriggered ==
  \/ /\ service.slot = "start_service"
     /\ \E r \in start_service(CurService) : ServiceReturns("start_service", r)
  \/ /\ service.slot = "stop_service"
     /\ \E r \in stop_service(CurService) : ServiceReturns("stop_service", r)

\* The 5 s timer and the menu's refresh entry.
ServiceTimer ==
  \E r \in tray_refresh_status(CurService) : ServiceReturns("refresh_status", r)

\* The unit changes state on its own or by other software.
EnvUnit ==
  /\ \E u \in Units \ {service.unit} : service' = [service EXCEPT !.unit = u]
  /\ lastCall' = Env
  /\ UNCHANGED <<ffmpeg_process, elgato_device, consecutive_errors, last_status,
                 procs, listing, moduleLoaded, vdevExists, polls, cvars,
                 dispatch, status_dialog, startup>>

NextService ==
  \/ TrayActivated
  \/ ToggleActionTriggered
  \/ ServiceTimer
  \/ EnvUnit

SpecService == InitService /\ [][NextService]_vars

Statuses == {"on", "off", "unsure", "disconnected"}

\* C40: toggle_service() queries the status first; it issues the service
\* stop exactly when the status is 'on', which is exactly when the query
\* exited 0 printing 'active', and the service start in each of the other
\* statuses; it issues one of the two and only once; and after the command
\* has returned (and its notification) the status is queried again and shown.
C40_ToggleStopsOnlyWhenOn ==
  /\ \A u \in Units, oc \in Outcome :
       LET q == IsActive(u, oc) IN
       StatusOf(q) = "on" <=> (~q.raised /\ q.returncode = 0 /\ q.stdout = "active")
  /\ lastCall.op = "toggle_service" =>
       LET tr == lastCall.trace IN
       /\ Len(tr) = 6
       /\ tr[1] = "is-active"
       /\ tr[2] \in Statuses
       /\ tr[3] = (IF tr[2] = "on" THEN "systemctl stop" ELSE "systemctl start")
       /\ tr[4] \in {Notification(oc) : oc \in Outcome}
       /\ tr[5] = "is-active"
       /\ tr[6] = service.shown
       /\ tr[6] = "on" => service.unit = "active"

\* A toggle that found the unit reloading (status 'unsure'), started it, and
\* shows it on.
C40_Witness ==
  /\ lastCall.op = "toggle_service"
  /\ lastCall.trace[2] = "unsure"
  /\ lastCall.trace[3] = "systemctl start"
  /\ service.shown = "on"
  /\ service.slot = "stop_service"

====
